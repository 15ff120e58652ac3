-------------------------- MODULE MnemosynthProofs --------------------------
(***************************************************************************)
(* Proofs about Mnemosynth, for any machines, modules and keys, outside    *)
(* the delicate windows.                                                   *)
(***************************************************************************)
EXTENDS Mnemosynth, TLAPS, FiniteSetTheorems, SequenceTheorems, WellFoundedInduction

-----------------------------------------------------------------------------
(* What a copy is worth.  D, I, P and W are the databases, the inboxes, the *)
(* processes and what was written; at[n][e] is how many of e's writes n's  *)
(* copy of e stands for, mk[n][j] how many the message inbox[n][j] does.   *)

Proc(D, e) == D[e].ep[e].pid

(* What is marked with process p is of process r: 0 says of the first. *)
IsNow(p, r) == p = r \/ (p = 0 /\ r = 1)

(* The i-th write is the last of k among the first s writes. *)
IsLast(w, s, k, i) == i \in 1..s /\ w[i].key = k /\ \A j \in 1..s : w[j].key = k => j <= i

About(m, e) == m.type = "update" /\ m.from = e
Gives(m, k, i) == \E x \in m.entries : x.key = k /\ x.seq = i
Mentions(m, k) == \E x \in m.entries : x.key = k
Comes(q, e, r, l) == l \in 1..Len(q) /\ About(q[l], e) /\ IsNow(q[l].pid, r)

(* A central module hears of its own modules from themselves, and all else *)
(* is passed on.                                                           *)
Direct(n, e) == IsCentral(n) /\ Local(n, e)
Source(n, e) == IF ~IsCentral(n) THEN CentralOf(n) ELSE IF Local(n, e) THEN e ELSE CentralOf(e)

(* d is the copy of n, of e up to its write a; q what n has still to take,  *)
(* with their marks.                                                       *)
(* The i-th write, of k, is in the copy, or in one of the first j messages,*)
(* or it is a deletion that n never heard of and does not need.            *)
Unheard(n, e, q, mk, d, a, w, r, k, i, j) ==
    /\ ~Direct(n, e) /\ a = 0 /\ w[i].val = Nil /\ d.entry[k].val = Nil
    /\ \A l \in 1..j : About(q[l], e) => ~Mentions(q[l], k)
    /\ \A l \in 1..j : Comes(q, e, r, l) => mk[l] = 0 \/ i <= mk[l]
Covered(n, e, q, mk, d, a, w, r, k, i, j) ==
    \/ i <= a
    \/ \E l \in 1..j : Comes(q, e, r, l) /\ Gives(q[l], k, i)
    \/ Unheard(n, e, q, mk, d, a, w, r, k, i, j)

(* d has of e what e's first a writes, in process r, left. *)
Copy(e, d, a, w, r) ==
    /\ a <= Len(w)
    /\ a > 0 => e \in DOMAIN d.ep
    /\ (e \in DOMAIN d.ep /\ IsNow(d.ep[e].pid, r)) => d.ep[e].recv <= a
    /\ \A k \in KeysOf(e), i \in 1..a : IsLast(w, a, k, i) =>
          /\ d.entry[k].val = w[i].val
          /\ w[i].val # Nil => d.entry[k] = [owner |-> d.ep[e].id, seq |-> i, val |-> w[i].val, has |-> TRUE]
    /\ r = 1 => \A k \in KeysOf(e) : (\A i \in 1..a : w[i].key # k) => d.entry[k].val = Nil

(* What d would pass on as e's is what e wrote last. *)
Owned(e, d, b, w) ==
    e \in DOMAIN d.ep => \A k \in OwnedBy(d, e) :
        /\ d.entry[k].seq \in 1..b
        /\ k \in KeysOf(e) => IsLast(w, b, k, d.entry[k].seq) /\ d.entry[k].val = w[d.entry[k].seq].val

(* The messages about e that n has still to take, the source being at b. *)
Whole(n, e, q, mk, d, a, w, r, b) ==
    \A j \in 1..Len(q) : Comes(q, e, r, j) =>
       /\ a <= mk[j] /\ mk[j] <= b
       /\ \A x \in q[j].entries :
             /\ x.seq \in 1..mk[j]
             /\ x.key \in KeysOf(e) => IsLast(w, mk[j], x.key, x.seq) /\ x.val = w[x.seq].val
       /\ \A k \in KeysOf(e), i \in 1..mk[j] :
             IsLast(w, mk[j], k, i) => Covered(n, e, q, mk, d, a, w, r, k, i, j)
InOrder(e, q, mk, r) ==
    \A l, j \in 1..Len(q) : (l < j /\ Comes(q, e, r, l) /\ About(q[j], e)) =>
       Comes(q, e, r, j) /\ mk[l] <= mk[j]
Flow(n, e, q, mk, d, a, w, r, b) ==
    /\ a <= b
    /\ Whole(n, e, q, mk, d, a, w, r, b)
    /\ InOrder(e, q, mk, r)
    /\ a > 0 => \A j \in 1..Len(q) : About(q[j], e) => Comes(q, e, r, j)

(* The source has still to send the i-th write. *)
Pending(pd, e, k, i) ==
    /\ pd.event /\ e \in DOMAIN pd.ep /\ k \in OwnedBy(pd, e)
    /\ pd.entry[k].seq = i /\ i > pd.ep[e].sent
Sent(n, e, q, mk, d, a, w, r, pd, b) ==
    \A k \in KeysOf(e), i \in 1..b : IsLast(w, b, k, i) =>
        Covered(n, e, q, mk, d, a, w, r, k, i, Len(q)) \/ Pending(pd, e, k, i)

(* The source sends n what changes; before, n has nothing of e. *)
Linked(n, e, pd) == Direct(n, e) \/ (n \in DOMAIN pd.ep /\ ~pd.ep[n].full)
Nothing(e, q, d, a) ==
    /\ a = 0
    /\ \A j \in 1..Len(q) : ~About(q[j], e)
    /\ \A k \in KeysOf(e) : d.entry[k].val = Nil

(* The copies that are followed, and those that are passed on. *)
Live(D, P, n, e) == P[n] # 0 /\ P[e] # 0 /\ (IsCentral(n) \/ Local(n, e) \/ Proc(D, e) = 1)
Forwards(D, P, p, e) == P[e] # 0 /\ (p = e \/ (IsCentral(p) /\ (Local(p, e) \/ Proc(D, e) = 1)))

Marked(I, W, at, mk) ==
    /\ at \in [Endpoint -> [Endpoint -> Nat]] /\ mk \in [Endpoint -> Seq(Nat)]
    /\ \A n \in Endpoint : at[n][n] = Len(W[n]) /\ Len(mk[n]) = Len(I[n])
Copying(D, P, W, at) ==
    \A n, e \in Endpoint : Live(D, P, n, e) => Copy(e, D[n], at[n][e], W[e], Proc(D, e))
Owning(D, P, W, at) ==
    \A p, e \in Endpoint : Forwards(D, P, p, e) => Owned(e, D[p], at[p][e], W[e])
Flowing(D, I, P, W, at, mk) ==
    \A n, e \in Endpoint : (n # e /\ Live(D, P, n, e)) =>
       Flow(n, e, I[n], mk[n], D[n], at[n][e], W[e], Proc(D, e), at[Source(n, e)][e])
Sending(D, I, P, W, at, mk) ==
    \A n, e \in Endpoint : (n # e /\ Live(D, P, n, e) /\ Linked(n, e, D[Source(n, e)])) =>
       Sent(n, e, I[n], mk[n], D[n], at[n][e], W[e], Proc(D, e), D[Source(n, e)], at[Source(n, e)][e])
Starting(D, I, P, at) ==
    \A n, e \in Endpoint : (n # e /\ P[n] # 0 /\ ~Linked(n, e, D[Source(n, e)])) =>
       Nothing(e, I[n], D[n], at[n][e])

(* Who writes a key: its writer, and Exarch deletes a module's ports. *)
KeyFrom(e, k, v) == WriterOf[k] = e \/ \E m \in Modules : e = CentralOf(m) /\ k = PortsOf[m] /\ v = Nil
Keys(D, I, W) ==
    /\ \A e \in Endpoint : \A i \in 1..Len(W[e]) : KeyFrom(e, W[e][i].key, W[e][i].val)
    /\ \A n \in Endpoint : \A e \in DOMAIN D[n].ep : \A k \in OwnedBy(D[n], e) :
          KeyFrom(e, k, D[n].entry[k].val) /\ (n # e => WriterOf[k] # n)
    /\ \A n \in Endpoint : \A j \in 1..Len(I[n]) : I[n][j].type = "update" =>
          \A x \in I[n][j].entries : KeyFrom(I[n][j].from, x.key, x.val) /\ WriterOf[x.key] # n

(* Exarch's deletion of the ports of m's last process arrives before what  *)
(* m's new process writes there.                                           *)
Uncleared(D, at, W, m) ==
    PortsOf[m] \in OwnedBy(D[CentralOf(m)], CentralOf(m)) =>
       /\ \A i \in 1..at[CentralOf(m)][m] : W[m][i].key # PortsOf[m]
       /\ m \in DOMAIN D[CentralOf(m)].ep => D[CentralOf(m)].ep[m].full
ClearedFirst(n, m, q, a, w, r) ==
    \A l \in 1..Len(q) : (About(q[l], CentralOf(m)) /\ Mentions(q[l], PortsOf[m])) =>
       /\ \A i \in 1..a : IsLast(w, a, PortsOf[m], i) => w[i].val = Nil
       /\ \A j \in 1..l - 1 : Comes(q, m, r, j) => ~Mentions(q[j], PortsOf[m])
NeverCleared(D, I, m) ==
    \A n \in Endpoint :
       /\ CentralOf(m) \in DOMAIN D[n].ep => PortsOf[m] \notin OwnedBy(D[n], CentralOf(m))
       /\ \A l \in 1..Len(I[n]) : About(I[n][l], CentralOf(m)) => ~Mentions(I[n][l], PortsOf[m])
Clearing(D, I, P, W, at) ==
    \A m \in Modules : P[m] # 0 =>
       /\ Uncleared(D, at, W, m)
       /\ \A n \in Endpoint : (n # m /\ n # CentralOf(m) /\ Live(D, P, n, m)) =>
             ClearedFirst(n, m, I[n], at[n][m], W[m], Proc(D, m))
       /\ Proc(D, m) = 1 => NeverCleared(D, I, m)

WriteType == [key : Key, val : Val]

(* The numbers of endpoints, sequences and processes; s is the number of   *)
(* modules stopped.                                                        *)
Numbered(d, n, w) ==
    /\ n \in DOMAIN d.ep /\ d.ep[n].id = 0 /\ d.ep[n].recv = Len(w)
    /\ \A e, f \in DOMAIN d.ep : d.ep[e].id = d.ep[f].id => e = f
    /\ \A e \in DOMAIN d.ep : d.ep[e].id < d.nextID /\ d.ep[e].sent <= d.ep[e].recv
    /\ \A k \in Key : d.entry[k].has => d.entry[k].owner < d.nextID
    /\ \E b \in Nat : \A k \in Key : d.entry[k].seq <= b
PidFits(D, n, e, p) ==
    /\ p <= Proc(D, e)
    /\ Local(n, e) => p > 0
    /\ Direct(n, e) => p = Proc(D, e)
Processes(D) == \A n \in Endpoint : \A e \in DOMAIN D[n].ep : PidFits(D, n, e, D[n].ep[e].pid)
Proper(D, n, m) ==
    m.type = "update" =>
       /\ m.from # n /\ m.pid <= Proc(D, m.from)
       /\ (Local(n, m.from) \/ IsCentral(n)) => m.pid > 0
       /\ Direct(n, m.from) => m.pid = Proc(D, m.from)
       /\ \A x, y \in m.entries : x.key = y.key => x = y
       /\ \E b \in Nat : \A x \in m.entries : x.seq <= b
Total(D) == D = [n \in Endpoint |-> D[n]]
Base(D, I, P, W, s) ==
    /\ Total(D) /\ \A n \in Endpoint : IsDb(D[n]) /\ Numbered(D[n], n, W[n])
    /\ I \in [Endpoint -> Seq(Message)] /\ W \in [Endpoint -> Seq(WriteType)]
    /\ P \in [Endpoint -> Nat] /\ s \in Nat
    /\ Processes(D)
    /\ \A n \in Endpoint : \A j \in 1..Len(I[n]) : Proper(D, n, I[n][j])
    /\ \A e \in Endpoint :
          /\ P[e] \in {0, Proc(D, e)} /\ 1 <= Proc(D, e) /\ Proc(D, e) <= s + 1
          /\ P[e] = 0 => Proc(D, e) <= s
          /\ IsCentral(e) => P[e] = 1

(* A central module that has not sent an endpoint everything is going to. *)
Notified(D) ==
    \A c, n \in Endpoint : (IsCentral(c) /\ n \in DOMAIN D[c].ep /\ n # c /\ D[c].ep[n].full) => D[c].event

Good(D, I, P, W, s, at, mk) ==
    /\ Base(D, I, P, W, s) /\ Marked(I, W, at, mk) /\ Keys(D, I, W)
    /\ Copying(D, P, W, at) /\ Owning(D, P, W, at)
    /\ Flowing(D, I, P, W, at, mk) /\ Sending(D, I, P, W, at, mk) /\ Starting(D, I, P, at)
    /\ Clearing(D, I, P, W, at) /\ Notified(D)

-----------------------------------------------------------------------------
(* Numbers and sequences. *)

LEMMA LeastNumber ==
    ASSUME NEW S, S \subseteq Nat, S # {}
    PROVE  \E m \in S : \A k \in S : m <= k
<1>1. PICK m \in S : \A k \in S : ~(<<k, m>> \in OpToRel(<, Nat))
  BY WFMin, NatLessThanWellFounded, Zenon
<1>2. \A k \in S : k \in Nat /\ m \in Nat /\ ~(k < m)
  BY <1>1 DEF OpToRel
<1>3. QED
  BY <1>2

LEMMA GreatestNumber ==
    ASSUME NEW S, S \subseteq Nat, S # {}, NEW b \in Nat, \A k \in S : k <= b
    PROVE  \E m \in S : \A k \in S : k <= m
<1> DEFINE U == {u \in Nat : \A k \in S : k <= u}
<1>1. PICK u \in U : \A k \in U : u <= k
  <2>1. U \subseteq Nat /\ U # {}
    OBVIOUS
  <2> HIDE DEF U
  <2>2. QED
    BY <2>1, LeastNumber
<1>2. CASE u \in S
  BY <1>1, <1>2
<1>3. CASE u \notin S 
  <2>1. u # 0
    <3>1. PICK k \in S : TRUE
      OBVIOUS
    <3>2. k \in Nat /\ k <= u /\ k # u
      BY <3>1, <1>1, <1>3
    <3>3. QED
      BY <3>2
  <2>2. u - 1 \in Nat /\ \A k \in S : k <= u - 1
    BY <2>1, <1>1, <1>3
  <2>3. QED
    BY <2>2, <1>1
<1>4. QED
  BY <1>2, <1>3

LEMMA Concat ==
    ASSUME NEW S, NEW q \in Seq(S), NEW x \in Seq(S)
    PROVE  /\ q \o x \in Seq(S) /\ Len(q \o x) = Len(q) + Len(x)
           /\ Len(q) \in Nat /\ Len(x) \in Nat
           /\ \A j \in 1..Len(q) : (q \o x)[j] = q[j]
           /\ \A j \in 1..Len(x) : (q \o x)[Len(q) + j] = x[j]
           /\ \A j \in 1..Len(q \o x) : j > Len(q) => j - Len(q) \in 1..Len(x) /\ (q \o x)[j] = x[j - Len(q)]
<1>1. Len(q) \in Nat /\ Len(x) \in Nat
  OBVIOUS
<1>2. /\ q \o x \in Seq(S) /\ Len(q \o x) = Len(q) + Len(x)
      /\ \A j \in 1..Len(q) + Len(x) : (q \o x)[j] = IF j <= Len(q) THEN q[j] ELSE x[j - Len(q)]
  BY ConcatProperties
<1>3. \A j \in 1..Len(q) : (q \o x)[j] = q[j]
  BY <1>1, <1>2
<1>4. ASSUME NEW j \in 1..Len(x) PROVE (q \o x)[Len(q) + j] = x[j]
  BY <1>1, <1>2
<1>5. ASSUME NEW j \in 1..Len(q \o x), j > Len(q)
      PROVE  j - Len(q) \in 1..Len(x) /\ (q \o x)[j] = x[j - Len(q)]
  BY <1>1, <1>2, <1>5
<1>6. QED
  BY <1>1, <1>2, <1>3, <1>4, <1>5

(* q1 is q without its i-th element. *)
Skip(i, j) == IF j < i THEN j ELSE j + 1
Without(q1, q, i) ==
    /\ i \in 1..Len(q) /\ Len(q1) = Len(q) - 1
    /\ \A j \in 1..Len(q1) : q1[j] = q[Skip(i, j)]

LEMMA TailIs ==
    ASSUME NEW S, NEW q \in Seq(S), q # <<>>
    PROVE  Tail(q) \in Seq(S) /\ Without(Tail(q), q, 1) /\ Head(q) = q[1] /\ Head(q) \in S
<1>1. Len(q) \in Nat /\ Len(q) # 0
  OBVIOUS
<1>2. /\ Head(q) \in S /\ Tail(q) \in Seq(S) /\ Len(Tail(q)) = Len(q) - 1
      /\ \A j \in 1..Len(Tail(q)) : Tail(q)[j] = q[j + 1]
  BY HeadTailProperties
<1>3. Without(Tail(q), q, 1)
  BY <1>1, <1>2 DEF Skip, Without
<1>4. Head(q) = q[1]
  OBVIOUS
<1>5. QED
  BY <1>2, <1>3, <1>4

LEMMA RemoveAtIs ==
    ASSUME NEW S, NEW q \in Seq(S), NEW i \in 1..Len(q)
    PROVE  RemoveAt(q, i) \in Seq(S) /\ Without(RemoveAt(q, i), q, i)
<1> DEFINE a == SubSeq(q, 1, i - 1)
           b == SubSeq(q, i + 1, Len(q))
<1>1. Len(q) \in Nat /\ i \in Nat /\ 1 <= i /\ i <= Len(q)
  OBVIOUS
<1>2. a \in Seq(S) /\ Len(a) = i - 1 /\ \A j \in 1..i - 1 : a[j] = q[j]
  <2>1. \A j \in 1..i - 1 : q[j] \in S
    BY <1>1
  <2>2. i - 1 \in Int /\ 1 \in Int
    BY <1>1
  <2>3. /\ a \in Seq(S) /\ Len(a) = IF 1 <= i - 1 THEN (i - 1) - 1 + 1 ELSE 0
        /\ \A j \in 1..(i - 1) - 1 + 1 : a[j] = q[1 + j - 1]
    BY <2>1, <2>2, SubSeqProperties
  <2> HIDE DEF a
  <2>4. (i - 1) - 1 + 1 = i - 1 /\ \A j \in 1..i - 1 : 1 + j - 1 = j
    BY <1>1
  <2>5. QED
    BY <2>3, <2>4, <1>1
<1>3. b \in Seq(S) /\ Len(b) = Len(q) - i /\ \A j \in 1..Len(q) - i : b[j] = q[i + j]
  <2>1. \A j \in i + 1..Len(q) : q[j] \in S
    BY <1>1
  <2>2. i + 1 \in Int /\ Len(q) \in Int
    BY <1>1
  <2>3. /\ b \in Seq(S) /\ Len(b) = IF i + 1 <= Len(q) THEN Len(q) - (i + 1) + 1 ELSE 0
        /\ \A j \in 1..Len(q) - (i + 1) + 1 : b[j] = q[i + 1 + j - 1]
    BY <2>1, <2>2, SubSeqProperties
  <2> HIDE DEF b
  <2>4. Len(q) - (i + 1) + 1 = Len(q) - i
    BY <1>1
  <2>5. ASSUME NEW j \in 1..Len(q) - i PROVE b[j] = q[i + j]
    <3>1. i + 1 + j - 1 = i + j
      BY <1>1
    <3>2. QED
      BY <3>1, <2>3, <2>4, Zenon
  <2>6. b \in Seq(S)
    BY <2>3
  <2>7. Len(b) = IF i + 1 <= Len(q) THEN Len(q) - i ELSE 0
    BY <2>3, <2>4, Zenon
  <2>8. Len(b) = Len(q) - i
    BY <2>7, <1>1
  <2>9. QED
    BY <2>5, <2>6, <2>8
<1>4. RemoveAt(q, i) = a \o b
  BY DEF RemoveAt
<1> HIDE DEF a, b
<1>5. /\ a \o b \in Seq(S) /\ Len(a \o b) = Len(q) - 1
      /\ \A j \in 1..Len(q) - 1 : (a \o b)[j] = IF j <= i - 1 THEN a[j] ELSE b[j - (i - 1)]
  <2>1. /\ a \o b \in Seq(S) /\ Len(a \o b) = Len(a) + Len(b)
        /\ \A j \in 1..Len(a) + Len(b) : (a \o b)[j] = IF j <= Len(a) THEN a[j] ELSE b[j - Len(a)]
    BY <1>2, <1>3, ConcatProperties
  <2>2. Len(a) + Len(b) = Len(q) - 1
    BY <1>1, <1>2, <1>3
  <2>3. QED
    BY <2>1, <2>2, <1>2
<1>6. ASSUME NEW j \in 1..Len(q) - 1 PROVE (a \o b)[j] = q[Skip(i, j)]
  BY <1>1, <1>5, <1>2, <1>3 DEF Skip
<1>7. QED
  BY <1>4, <1>5, <1>6, <1>1 DEF Without

(* A finite set written as a sequence. *)
LEMMA SetToSeqIs ==
    ASSUME NEW S, IsFiniteSet(S)
    PROVE  /\ SetToSeq(S) \in Seq(S) /\ Len(SetToSeq(S)) \in Nat
           /\ \A x \in S : \E j \in 1..Len(SetToSeq(S)) : SetToSeq(S)[j] = x
<1> DEFINE n == Cardinality(S)
           f == SetToSeq(S)
<1>1. n \in Nat /\ ExistsBijection(1..n, S)
  BY FS_CardinalityType
<1>2. \E g \in [1..n -> S] : IsInjective(g)
  BY <1>1 DEF ExistsBijection, Bijection, Injection
<1>3. f \in [1..n -> S] /\ IsInjective(f)
  BY <1>2 DEF SetToSeq
<1>4. IsFiniteSet(1..n) /\ Cardinality(1..n) = n
  <2>1. 1 \in Int /\ n \in Int
    BY <1>1
  <2>2. IsFiniteSet(1..n) /\ Cardinality(1..n) = IF 1 > n THEN 0 ELSE n - 1 + 1
    BY <2>1, FS_Interval
  <2> HIDE DEF n
  <2>3. QED
    BY <2>2, <1>1
<1> HIDE DEF f
<1>5. f \in Injection(1..n, S)
  BY <1>3 DEF Injection
<1>6. f \in Surjection(1..n, S)
  BY <1>5, <1>4, FS_Injection
<1>7. \A x \in S : \E j \in 1..n : f[j] = x
  BY <1>6 DEF Surjection
<1> HIDE DEF n
<1>8. f \in Seq(S) /\ Len(f) = n
  BY <1>3, <1>1
<1>9. QED
  BY <1>7, <1>8, <1>1 DEF f

LEMMA FiniteImage ==
    ASSUME NEW S, IsFiniteSet(S), NEW T, NEW g, g \in [S -> T], T = {g[x] : x \in S}
    PROVE  IsFiniteSet(T)
<1>1. g \in Surjection(S, T)
  BY DEF Surjection
<1>2. QED
  BY <1>1, FS_Surjection

-----------------------------------------------------------------------------
(* What the operations of CMnemosynthDb do to a database. *)

LEMMA RecordIs ==
    ASSUME NEW d, IsDb(d)
    PROVE  /\ DOMAIN d = {"entry", "ep", "nextID", "event"}
           /\ DOMAIN d.entry = Key
           /\ \A k \in Key : d.entry[k] \in EntryType
           /\ \A k \in Key : /\ d.entry[k].owner \in Nat \cup {NullID} /\ d.entry[k].seq \in Nat
                             /\ d.entry[k].val \in Val /\ d.entry[k].has \in BOOLEAN
           /\ \A e \in DOMAIN d.ep : d.ep[e] \in EndpointType /\ e \in Endpoint
           /\ \A e \in DOMAIN d.ep : /\ d.ep[e].id \in Nat /\ d.ep[e].recv \in Nat /\ d.ep[e].sent \in Nat
                                     /\ d.ep[e].full \in BOOLEAN /\ d.ep[e].pid \in Nat
           /\ d.nextID \in Nat /\ d.event \in BOOLEAN
<1>1. DOMAIN d = {"entry", "ep", "nextID", "event"}
  BY DEF IsDb
<1>2. DOMAIN d.entry = Key /\ \A k \in Key : d.entry[k] \in EntryType
  BY DEF IsDb
<1>3. \A e \in DOMAIN d.ep : d.ep[e] \in EndpointType /\ e \in Endpoint
  BY DEF IsDb
<1>4. d.nextID \in Nat /\ d.event \in BOOLEAN
  BY DEF IsDb
<1>5. ASSUME NEW k \in Key
      PROVE  /\ d.entry[k].owner \in Nat \cup {NullID} /\ d.entry[k].seq \in Nat
             /\ d.entry[k].val \in Val /\ d.entry[k].has \in BOOLEAN
  BY <1>2 DEF EntryType
<1>6. ASSUME NEW e \in DOMAIN d.ep
      PROVE  /\ d.ep[e].id \in Nat /\ d.ep[e].recv \in Nat /\ d.ep[e].sent \in Nat
             /\ d.ep[e].full \in BOOLEAN /\ d.ep[e].pid \in Nat
  BY <1>3 DEF EndpointType
<1>7. QED
  BY <1>1, <1>2, <1>3, <1>4, <1>5, <1>6

LEMMA NoEntryIs == NoEntry \in EntryType /\ NoEntry.val = Nil /\ ~NoEntry.has
BY DEF NoEntry, EntryType, Val

LEMMA EmptyDbIs ==
    ASSUME NEW n \in Endpoint, NEW p \in Nat
    PROVE  /\ IsDb(EmptyDb(n, p))
           /\ \A k \in Key : EmptyDb(n, p).entry[k] = NoEntry
           /\ DOMAIN EmptyDb(n, p).ep = {n}
           /\ EmptyDb(n, p).ep[n] = [id |-> 0, recv |-> 0, sent |-> 0, full |-> TRUE, pid |-> p]
           /\ EmptyDb(n, p).nextID = 1 /\ EmptyDb(n, p).event = FALSE
<1> DEFINE x == [k \in Key |-> NoEntry]
           y == [e \in {n} |-> [id |-> 0, recv |-> 0, sent |-> 0, full |-> TRUE, pid |-> p]]
<1>1. x \in [Key -> EntryType]
  BY NoEntryIs
<1>2. DOMAIN y = {n} /\ DOMAIN y \subseteq Endpoint /\ y \in [DOMAIN y -> EndpointType]
      /\ y[n] = [id |-> 0, recv |-> 0, sent |-> 0, full |-> TRUE, pid |-> p]
  BY DEF EndpointType
<1>3. EmptyDb(n, p) = [entry |-> x, ep |-> y, nextID |-> 1, event |-> FALSE]
  BY DEF EmptyDb
<1> HIDE DEF x, y
<1>4. /\ IsDb(EmptyDb(n, p)) /\ EmptyDb(n, p).entry = x /\ EmptyDb(n, p).ep = y
      /\ EmptyDb(n, p).nextID = 1 /\ EmptyDb(n, p).event = FALSE
  BY <1>1, <1>2, <1>3 DEF IsDb
<1>5. QED
  BY <1>2, <1>4 DEF x

(* d1 is d with the write of k, by n itself. *)
IsWritten(d1, n, d, k, v) ==
    /\ IsDb(d1) /\ DOMAIN d1.ep = DOMAIN d.ep /\ d1.nextID = d.nextID /\ d1.event
    /\ d1.entry[k] = [owner |-> 0, seq |-> d.ep[n].recv + 1, val |-> v, has |-> TRUE]
    /\ \A j \in Key : j # k => d1.entry[j] = d.entry[j]
    /\ d1.ep[n].id = d.ep[n].id /\ d1.ep[n].full = d.ep[n].full /\ d1.ep[n].pid = d.ep[n].pid
    /\ d1.ep[n].sent = d.ep[n].sent /\ d1.ep[n].recv = d.ep[n].recv + 1
    /\ \A e \in DOMAIN d.ep : e # n => d1.ep[e] = d.ep[e]

LEMMA WriteIs ==
    ASSUME NEW d, IsDb(d), NEW n \in DOMAIN d.ep, NEW k \in Key, NEW v \in Val
    PROVE  IsWritten(WriteEntry(n, d, k, v), n, d, k, v)
<1> SUFFICES ASSUME NEW d1, d1 = WriteEntry(n, d, k, v), NEW s, s = d.ep[n].recv + 1
             PROVE  IsWritten(d1, n, d, k, v)
  OBVIOUS
<1> DEFINE x == [d.entry EXCEPT ![k] = [owner |-> 0, seq |-> s, val |-> v, has |-> TRUE]]
           p == [d.ep EXCEPT ![n] = [@ EXCEPT !.recv = s]]
<1>1. s \in Nat /\ d.ep[n] \in EndpointType
  BY RecordIs
<1>2. x \in [Key -> EntryType]
  BY <1>1 DEF EntryType, IsDb
<1>3. p \in [DOMAIN d.ep -> EndpointType] /\ DOMAIN d.ep \subseteq Endpoint
  BY <1>1 DEF EndpointType, IsDb
<1>4. d1 = [entry |-> x, ep |-> p, nextID |-> d.nextID, event |-> TRUE]
  <2>1. /\ d = [entry |-> d.entry, ep |-> d.ep, nextID |-> d.nextID, event |-> d.event]
        /\ d.entry \in [Key -> EntryType] /\ d.ep \in [DOMAIN d.ep -> EndpointType]
    BY DEF IsDb
  <2>2. d1 = [d EXCEPT !.entry = x, !.ep = p, !.event = TRUE]
    BY DEF WriteEntry
  <2> HIDE DEF x, p
  <2>3. QED
    BY <2>1, <2>2
<1>5. d.nextID \in Nat
  BY RecordIs
<1>6. d.entry \in [Key -> EntryType] /\ d.ep \in [DOMAIN d.ep -> EndpointType]
  BY DEF IsDb
<1>7. /\ x[k] = [owner |-> 0, seq |-> s, val |-> v, has |-> TRUE]
      /\ \A j \in Key : j # k => x[j] = d.entry[j]
      /\ p[n].id = d.ep[n].id /\ p[n].full = d.ep[n].full /\ p[n].pid = d.ep[n].pid
      /\ p[n].sent = d.ep[n].sent /\ p[n].recv = s
      /\ \A e \in DOMAIN d.ep : e # n => p[e] = d.ep[e]
      /\ DOMAIN p = DOMAIN d.ep
  BY <1>6, <1>1 DEF EndpointType
<1> HIDE DEF x, p
<1>8. IsDb(d1) /\ d1.entry = x /\ d1.ep = p /\ d1.nextID = d.nextID /\ d1.event = TRUE
  BY <1>2, <1>3, <1>4, <1>5, <1>7 DEF IsDb
<1>9. QED
  BY <1>7, <1>8 DEF IsWritten

(* d1 is d once it knows e. *)
IsKnown(d1, n, d, e, p) ==
    /\ IsDb(d1) /\ d1.entry = d.entry /\ d1.event = d.event
    /\ DOMAIN d1.ep = DOMAIN d.ep \cup {e}
    /\ \A f \in DOMAIN d.ep : f # e => d1.ep[f] = d.ep[f]
    /\ e \notin DOMAIN d.ep => d1.ep[e] = AddedAs(n, e, p, d.nextID) /\ d1.nextID = d.nextID + 1
    /\ e \in DOMAIN d.ep => d1.nextID = d.nextID
    /\ (e \in DOMAIN d.ep /\ p # 0 /\ p # d.ep[e].pid) =>
          /\ d1.ep[e].id = d.ep[e].id /\ d1.ep[e].full = d.ep[e].full
          /\ d1.ep[e].pid = p /\ d1.ep[e].recv = 0 /\ d1.ep[e].sent = 0
    /\ (e \in DOMAIN d.ep /\ ~(p # 0 /\ p # d.ep[e].pid)) => d1.ep[e] = d.ep[e]

LEMMA GetOrAddIs ==
    ASSUME NEW n, NEW d, IsDb(d), NEW e \in Endpoint, NEW p \in Nat
    PROVE  IsKnown(GetOrAddEndpoint(n, d, e, p), n, d, e, p)
<1> SUFFICES ASSUME NEW d1, d1 = GetOrAddEndpoint(n, d, e, p)
             PROVE  IsKnown(d1, n, d, e, p)
  OBVIOUS
<1>1. /\ d.entry \in [Key -> EntryType] /\ d.ep \in [DOMAIN d.ep -> EndpointType]
      /\ DOMAIN d.ep \subseteq Endpoint /\ d.nextID \in Nat /\ d.event \in BOOLEAN
  BY DEF IsDb
<1>2. CASE e \notin DOMAIN d.ep
  <2> DEFINE q == [x \in DOMAIN d.ep \cup {e} |-> IF x = e THEN AddedAs(n, e, p, d.nextID) ELSE d.ep[x]]
  <2>1. d1 = [entry |-> d.entry, ep |-> q, nextID |-> d.nextID + 1, event |-> d.event]
    BY <1>2 DEF IsDb, GetOrAddEndpoint
  <2>2. AddedAs(n, e, p, d.nextID) \in EndpointType
    BY <1>1 DEF AddedAs, EndpointType
  <2>3. DOMAIN q = DOMAIN d.ep \cup {e} /\ DOMAIN q \subseteq Endpoint /\ q \in [DOMAIN q -> EndpointType]
    BY <2>2, <1>1
  <2>4. q[e] = AddedAs(n, e, p, d.nextID) /\ \A f \in DOMAIN d.ep : f # e => q[f] = d.ep[f]
    OBVIOUS
  <2> HIDE DEF q
  <2>5. IsDb(d1) /\ d1.entry = d.entry /\ d1.ep = q /\ d1.nextID = d.nextID + 1 /\ d1.event = d.event
    BY <2>1, <2>3, <1>1 DEF IsDb
  <2>6. QED
    BY <2>3, <2>4, <2>5, <1>2 DEF IsKnown
<1>3. CASE e \in DOMAIN d.ep /\ p # 0 /\ p # d.ep[e].pid
  <2> DEFINE q == [d.ep EXCEPT ![e] = [@ EXCEPT !.pid = p, !.recv = 0, !.sent = 0]]
  <2>1. d1 = [entry |-> d.entry, ep |-> q, nextID |-> d.nextID, event |-> d.event]
    BY <1>3, <1>1 DEF IsDb, GetOrAddEndpoint
  <2>2. [d.ep[e] EXCEPT !.pid = p, !.recv = 0, !.sent = 0] \in EndpointType
    BY <1>1, <1>3 DEF EndpointType
  <2>3. DOMAIN q = DOMAIN d.ep /\ q \in [DOMAIN q -> EndpointType]
    BY <2>2, <1>1
  <2>4. /\ q[e] = [d.ep[e] EXCEPT !.pid = p, !.recv = 0, !.sent = 0]
        /\ \A f \in DOMAIN d.ep : f # e => q[f] = d.ep[f]
    BY <1>3
  <2> HIDE DEF q
  <2>5. IsDb(d1) /\ d1.entry = d.entry /\ d1.ep = q /\ d1.nextID = d.nextID /\ d1.event = d.event
    BY <2>1, <2>3, <1>1 DEF IsDb
  <2>6. /\ q[e].id = d.ep[e].id /\ q[e].full = d.ep[e].full
        /\ q[e].pid = p /\ q[e].recv = 0 /\ q[e].sent = 0
    BY <2>4, <1>1, <1>3 DEF EndpointType
  <2>7. QED
    BY <2>3, <2>4, <2>5, <2>6, <1>3 DEF IsKnown
<1>4. CASE e \in DOMAIN d.ep /\ ~(p # 0 /\ p # d.ep[e].pid)
  BY <1>4 DEF GetOrAddEndpoint, IsKnown
<1>5. QED
  BY <1>2, <1>3, <1>4

UpdateType == [type : {"update"}, from : Endpoint, pid : Nat, entries : SUBSET [key : Key, seq : Nat, val : Val]]
LEMMA UpdateIs ==
    ASSUME NEW m \in Message, m.type = "update"
    PROVE  /\ m \in UpdateType /\ m.from \in Endpoint /\ m.pid \in Nat
           /\ \A x \in m.entries : x \in [key : Key, seq : Nat, val : Val] /\ x.key \in Key /\ x.seq \in Nat /\ x.val \in Val
<1>1. m \in UpdateType
  BY DEF Message, UpdateType
<1>2. m.from \in Endpoint /\ m.pid \in Nat /\ m.entries \subseteq [key : Key, seq : Nat, val : Val]
  BY <1>1 DEF UpdateType
<1>3. QED
  BY <1>1, <1>2

(* IncorporateDelta: known is the database once f, who sent m, is known,   *)
(* old is where its copy of f was.                                         *)
Entered(n, id, x) ==
    IF x.val = Nil /\ ~IsCentral(n) THEN NoEntry ELSE [owner |-> id, seq |-> x.seq, val |-> x.val, has |-> TRUE]
Newer(m, old) == {x \in m.entries : x.seq > old}
Taken(n, known, m, f, old, k) ==
    IF \E x \in Newer(m, old) : x.key = k
    THEN LET x == CHOOSE y \in Newer(m, old) : y.key = k
         IN  Entered(n, known.ep[f].id, x)
    ELSE known.entry[k]
Heights(m, old) == {old} \cup {x.seq : x \in Newer(m, old)}
Highest(m, old) == CHOOSE s \in Heights(m, old) : \A r \in Heights(m, old) : r <= s
Incorporated(n, known, m, f, old) ==
    [known EXCEPT !.entry = [k \in Key |-> Taken(n, known, m, f, old, k)], !.ep[f].recv = Highest(m, old)]

LEMMA IncorporatedIs ==
    ASSUME NEW n, NEW d, NEW m
    PROVE  IncorporateDelta(n, d, m) =
           Incorporated(n, GetOrAddEndpoint(n, d, m.from, m.pid), m, m.from,
                        GetOrAddEndpoint(n, d, m.from, m.pid).ep[m.from].recv)
BY Zenon DEF IncorporateDelta, Incorporated, Highest, Heights, Taken, Newer, Entered

LEMMA HighestIs ==
    ASSUME NEW m, \A x \in m.entries : x.seq \in Nat, NEW old \in Nat,
           NEW b \in Nat, \A x \in m.entries : x.seq <= b
    PROVE  /\ Highest(m, old) \in Nat /\ old <= Highest(m, old)
           /\ \A x \in m.entries : x.seq <= Highest(m, old)
           /\ Highest(m, old) = old \/ \E x \in m.entries : Highest(m, old) = x.seq
<1>1. Heights(m, old) \subseteq Nat /\ Heights(m, old) # {}
  BY DEF Heights, Newer
<1>2. \A s \in Heights(m, old) : s <= (IF old > b THEN old ELSE b)
  BY DEF Heights, Newer
<1>3. (IF old > b THEN old ELSE b) \in Nat
  OBVIOUS
<1>4. \E s \in Heights(m, old) : \A r \in Heights(m, old) : r <= s
  BY <1>1, <1>2, <1>3, GreatestNumber
<1>5. Highest(m, old) \in Heights(m, old) /\ \A r \in Heights(m, old) : r <= Highest(m, old)
  BY <1>4 DEF Highest
<1>6. old \in Heights(m, old) /\ \A x \in m.entries : x.seq > old => x.seq \in Heights(m, old)
  BY DEF Heights, Newer
<1>7. Highest(m, old) \in Nat /\ old <= Highest(m, old)
  BY <1>1, <1>5, <1>6
<1>8. ASSUME NEW x \in m.entries PROVE x.seq <= Highest(m, old)
  BY <1>5, <1>6, <1>7
<1>9. Highest(m, old) = old \/ \E x \in m.entries : Highest(m, old) = x.seq
  BY <1>5 DEF Heights, Newer
<1>10. QED
  BY <1>7, <1>8, <1>9

LEMMA NotTakenIs ==
    ASSUME NEW n, NEW known, NEW m, NEW f, NEW old, NEW k, \A x \in m.entries : x.key = k => ~(x.seq > old)
    PROVE  Taken(n, known, m, f, old, k) = known.entry[k]
<1>1. ~\E x \in Newer(m, old) : x.key = k
  BY DEF Newer
<1>2. QED
  BY <1>1 DEF Taken

IsIncorporated(d1, n, d, m, known, old) ==
    /\ IsDb(d1) /\ DOMAIN d1.ep = DOMAIN d.ep \cup {m.from}
    /\ d1.event = d.event /\ d1.nextID = known.nextID /\ old \in Nat
    /\ \A e \in DOMAIN d.ep : e # m.from => d1.ep[e] = d.ep[e]
    /\ d1.ep[m.from].id = known.ep[m.from].id /\ d1.ep[m.from].sent = known.ep[m.from].sent
    /\ d1.ep[m.from].full = known.ep[m.from].full /\ d1.ep[m.from].pid = known.ep[m.from].pid
    /\ old <= d1.ep[m.from].recv /\ \A x \in m.entries : x.seq <= d1.ep[m.from].recv
    /\ d1.ep[m.from].recv = old \/ \E x \in m.entries : d1.ep[m.from].recv = x.seq
    /\ \A x \in m.entries : x.seq > old => d1.entry[x.key] = Entered(n, d1.ep[m.from].id, x)
    /\ \A k \in Key : (\A x \in m.entries : x.key = k => x.seq <= old) => d1.entry[k] = d.entry[k]

LEMMA IncorporateIs ==
    ASSUME NEW n, NEW d, IsDb(d), NEW m \in Message, m.type = "update",
           \A x, y \in m.entries : x.key = y.key => x = y,
           NEW b \in Nat, \A x \in m.entries : x.seq <= b,
           NEW known, known = GetOrAddEndpoint(n, d, m.from, m.pid), NEW d1, d1 = IncorporateDelta(n, d, m),
           NEW f, f = m.from, NEW old, old = known.ep[f].recv
    PROVE  IsIncorporated(d1, n, d, m, known, old)
<1>1. /\ m.from \in Endpoint /\ m.pid \in Nat
      /\ \A x \in m.entries : x.key \in Key /\ x.seq \in Nat /\ x.val \in Val
  BY UpdateIs
<1>2. /\ IsDb(known) /\ known.entry = d.entry /\ known.event = d.event
      /\ DOMAIN known.ep = DOMAIN d.ep \cup {f}
      /\ \A e \in DOMAIN d.ep : e # f => known.ep[e] = d.ep[e]
  <2>1. IsKnown(known, n, d, m.from, m.pid)
    BY <1>1, GetOrAddIs
  <2>2. QED
    BY <2>1 DEF IsKnown
<1>3. old \in Nat /\ known.ep[f] \in EndpointType /\ known.ep[f].id \in Nat
  BY <1>2, RecordIs
<1> DEFINE top == Highest(m, old)
           ent == [k \in Key |-> Taken(n, known, m, f, old, k)]
           p == [known.ep EXCEPT ![f] = [@ EXCEPT !.recv = top]]
<1>4. top \in Nat /\ old <= top /\ (\A x \in m.entries : x.seq <= top)
      /\ (top = old \/ \E x \in m.entries : top = x.seq)
  BY <1>1, <1>3, HighestIs
<1>5. /\ \A x \in m.entries : x.seq > old =>
            ent[x.key] = Entered(n, known.ep[f].id, x)
      /\ \A k \in Key : (\A x \in m.entries : x.key = k => x.seq <= old) => ent[k] = d.entry[k]
  <2>1. ASSUME NEW x \in m.entries, x.seq > old, NEW k, k = x.key
        PROVE  ent[k] = Entered(n, known.ep[f].id, x)
    <3>1. x \in Newer(m, old) /\ \A y \in Newer(m, old) : y.key = k => y = x
      BY <2>1 DEF Newer
    <3>2. (CHOOSE y \in Newer(m, old) : y.key = k) = x /\ \E y \in Newer(m, old) : y.key = k
      BY <2>1, <3>1
    <3>3. Taken(n, known, m, f, old, k) = Entered(n, known.ep[f].id, x)
      BY <3>2, Zenon DEF Taken
    <3>4. k \in Key
      BY <1>1, <2>1
    <3>5. QED
      BY <3>3, <3>4
  <2>2. ASSUME NEW k \in Key, \A x \in m.entries : x.key = k => x.seq <= old
        PROVE  ent[k] = d.entry[k]
    BY <2>2, <1>1, <1>3, NotTakenIs, <1>2
  <2>3. QED
    BY <2>1, <2>2
<1>6. ent \in [Key -> EntryType]
  <2>1. ASSUME NEW k \in Key PROVE ent[k] \in EntryType
    <3>1. CASE \E x \in m.entries : x.key = k /\ x.seq > old
      <4>1. PICK x \in m.entries : x.key = k /\ x.seq > old
        BY <3>1
      <4>2. Entered(n, known.ep[f].id, x) \in EntryType
        BY <1>1, <1>3, NoEntryIs DEF EntryType, Entered
      <4> HIDE DEF ent
      <4>3. QED
        BY <4>1, <4>2, <1>5
    <3>2. CASE \A x \in m.entries : x.key = k => ~(x.seq > old)
      <4>1. \A x \in m.entries : x.key = k => x.seq <= old
        BY <3>2, <1>1, <1>3
      <4> HIDE DEF ent
      <4>2. ent[k] = d.entry[k]
        BY <4>1, <1>5
      <4>3. QED
        BY <4>2, RecordIs
    <3>3. QED
      BY <3>1, <3>2
  <2>2. QED
    BY <2>1
<1>7. /\ DOMAIN p = DOMAIN d.ep \cup {f} /\ DOMAIN p \subseteq Endpoint /\ p \in [DOMAIN p -> EndpointType]
      /\ p[f] = [known.ep[f] EXCEPT !.recv = top]
      /\ \A e \in DOMAIN d.ep : e # f => p[e] = d.ep[e]
  <2>1. [known.ep[f] EXCEPT !.recv = top] \in EndpointType
    BY <1>3, <1>4 DEF EndpointType
  <2>2. known.ep \in [DOMAIN known.ep -> EndpointType] /\ DOMAIN known.ep \subseteq Endpoint
    BY <1>2 DEF IsDb
  <2> HIDE DEF top
  <2>3. QED
    BY <2>1, <2>2, <1>2
<1>8. known.nextID \in Nat /\ known.event \in BOOLEAN
  BY <1>2, RecordIs
<1>9. d1 = [entry |-> ent, ep |-> p, nextID |-> known.nextID, event |-> known.event]
  <2>1. /\ known = [entry |-> known.entry, ep |-> known.ep, nextID |-> known.nextID, event |-> known.event]
        /\ known.entry \in [Key -> EntryType] /\ known.ep \in [DOMAIN known.ep -> EndpointType]
    BY <1>2 DEF IsDb
  <2>2. d1 = Incorporated(n, known, m, f, old)
    BY IncorporatedIs
  <2>3. d1 = [known EXCEPT !.entry = ent, !.ep = p]
    BY <2>2, <2>1 DEF Incorporated
  <2> HIDE DEF ent, p
  <2>4. QED
    BY <2>1, <2>3
<1> HIDE DEF ent, p, top
<1>10. /\ d1.entry = ent /\ d1.ep = p /\ d1.nextID = known.nextID /\ d1.event = known.event
       /\ IsDb(d1)
  BY <1>6, <1>7, <1>8, <1>9 DEF IsDb
<1>11. /\ p[f].recv = top /\ p[f].id = known.ep[f].id /\ p[f].sent = known.ep[f].sent
       /\ p[f].full = known.ep[f].full /\ p[f].pid = known.ep[f].pid
  BY <1>7, <1>3 DEF EndpointType
<1>12. \A x \in m.entries : x.seq > old =>
          d1.entry[x.key] = Entered(n, d1.ep[f].id, x)
  BY <1>5, <1>10, <1>11
<1>13. \A k \in Key : (\A x \in m.entries : x.key = k => x.seq <= old) => d1.entry[k] = d.entry[k]
  BY <1>5, <1>10
<1>14. QED
  BY <1>2, <1>3, <1>4, <1>7, <1>10, <1>11, <1>12, <1>13 DEF IsIncorporated

(* d1 is d once the delta is sent. *)
IsSpread(d1, n, d) ==
    /\ IsDb(d1) /\ DOMAIN d1.ep = DOMAIN d.ep /\ d1.nextID = d.nextID /\ ~d1.event
    /\ \A k \in Key : d1.entry[k] = IF k \in Stubs(n, d) THEN NoEntry ELSE d.entry[k]
    /\ \A k \in Stubs(n, d) : k \in Key /\ d.entry[k].val = Nil
    /\ \A e \in DOMAIN d.ep :
          /\ d1.ep[e].id = d.ep[e].id /\ d1.ep[e].recv = d.ep[e].recv /\ d1.ep[e].pid = d.ep[e].pid
          /\ d1.ep[e].sent = d.ep[e].recv /\ d1.ep[e].full = FALSE

LEMMA AfterDeltaIs ==
    ASSUME NEW n, NEW d, IsDb(d)
    PROVE  IsSpread(AfterDelta(n, d), n, d)
<1> SUFFICES ASSUME NEW d1, d1 = AfterDelta(n, d) PROVE IsSpread(d1, n, d)
  OBVIOUS
<1> DEFINE x == [k \in Key |-> IF k \in Stubs(n, d) THEN NoEntry ELSE d.entry[k]]
           p == [e \in DOMAIN d.ep |-> [d.ep[e] EXCEPT !.sent = d.ep[e].recv, !.full = FALSE]]
<1>1. /\ d = [entry |-> d.entry, ep |-> d.ep, nextID |-> d.nextID, event |-> d.event]
      /\ DOMAIN d.ep \subseteq Endpoint
  BY DEF IsDb
<1>2. /\ d.nextID \in Nat /\ \A k \in Key : d.entry[k] \in EntryType
      /\ \A e \in DOMAIN d.ep : d.ep[e] \in EndpointType
  BY RecordIs
<1>3. d1 = [entry |-> x, ep |-> p, nextID |-> d.nextID, event |-> FALSE]
  <2>1. d1 = [d EXCEPT !.entry = x, !.ep = p, !.event = FALSE]
    BY <1>1 DEF IsDb, AfterDelta
  <2> HIDE DEF x, p
  <2>2. QED
    BY <1>1, <2>1
<1>4. x \in [Key -> EntryType]
  BY <1>2, NoEntryIs
<1>5. ASSUME NEW e \in DOMAIN d.ep
      PROVE  /\ p[e] \in EndpointType
             /\ p[e].id = d.ep[e].id /\ p[e].recv = d.ep[e].recv /\ p[e].pid = d.ep[e].pid
             /\ p[e].sent = d.ep[e].recv /\ p[e].full = FALSE
  BY <1>2, Zenon DEF EndpointType
<1>6. DOMAIN p = DOMAIN d.ep /\ p \in [DOMAIN p -> EndpointType]
  BY <1>5, Zenon
<1>7. \A k \in Stubs(n, d) : k \in Key /\ d.entry[k].val = Nil
  BY DEF Stubs
<1>8. \A k \in Key : x[k] = IF k \in Stubs(n, d) THEN NoEntry ELSE d.entry[k]
  OBVIOUS
<1> HIDE DEF x, p
<1>9. IsDb(d1) /\ d1.entry = x /\ d1.ep = p /\ d1.nextID = d.nextID /\ d1.event = FALSE
  BY <1>1, <1>2, <1>3, <1>4, <1>6 DEF IsDb
<1>10. QED
  BY <1>5, <1>6, <1>7, <1>8, <1>9 DEF IsSpread

(* d1 is d without e. *)
IsRemoved(d1, d, e) ==
    /\ IsDb(d1) /\ DOMAIN d1.ep = DOMAIN d.ep \ {e} /\ d1.nextID = d.nextID
    /\ d1.event = d.event /\ d1.entry = d.entry
    /\ \A f \in DOMAIN d1.ep : d1.ep[f] = d.ep[f]

LEMMA RemoveEndpointIs ==
    ASSUME NEW d, IsDb(d), NEW e
    PROVE  IsRemoved(RemoveEndpoint(d, e), d, e)
<1> SUFFICES ASSUME NEW d1, d1 = RemoveEndpoint(d, e) PROVE IsRemoved(d1, d, e)
  OBVIOUS
<1> DEFINE p == [x \in DOMAIN d.ep \ {e} |-> d.ep[x]]
<1>1. /\ d = [entry |-> d.entry, ep |-> d.ep, nextID |-> d.nextID, event |-> d.event]
      /\ d.entry \in [Key -> EntryType] /\ DOMAIN d.ep \subseteq Endpoint
      /\ d.ep \in [DOMAIN d.ep -> EndpointType] /\ d.nextID \in Nat /\ d.event \in BOOLEAN
  BY DEF IsDb
<1>2. d1 = [entry |-> d.entry, ep |-> p, nextID |-> d.nextID, event |-> d.event]
  BY <1>1 DEF RemoveEndpoint
<1>3. /\ DOMAIN p = DOMAIN d.ep \ {e} /\ p \in [DOMAIN p -> EndpointType] /\ DOMAIN p \subseteq Endpoint
      /\ \A f \in DOMAIN p : p[f] = d.ep[f]
  BY <1>1
<1> HIDE DEF p
<1>4. IsDb(d1) /\ d1.entry = d.entry /\ d1.ep = p /\ d1.nextID = d.nextID /\ d1.event = d.event
  BY <1>1, <1>2, <1>3 DEF IsDb
<1>5. QED
  BY <1>3, <1>4 DEF IsRemoved

-----------------------------------------------------------------------------
(* Steps that leave a pair of modules as it was, or nearly. *)

LEMMA Places ==
    ASSUME NEW n \in Endpoint, NEW e \in Endpoint
    PROVE  /\ CentralOf(n) \in Endpoint /\ IsCentral(CentralOf(n))
           /\ Local(n, CentralOf(n)) /\ Local(CentralOf(n), n)
           /\ Source(n, e) \in Endpoint
           /\ IsCentral(n) => CentralOf(n) = n
           /\ (IsCentral(n) /\ Local(n, e)) => CentralOf(e) = n
           /\ Local(n, e) => Local(e, n) /\ CentralOf(e) = CentralOf(n)
           /\ CentralOf(CentralOf(n)) = CentralOf(n)
<1>1. /\ n = <<n[1], n[2]>> /\ e = <<e[1], e[2]>>
      /\ CentralOf(n) \in Endpoint /\ CentralOf(e) \in Endpoint
  BY MnemosynthAssumption
<1>2. /\ CentralOf(n) = <<n[1], Central>> /\ CentralOf(e) = <<e[1], Central>>
  BY DEF CentralOf
<1>3. CentralOf(n)[1] = n[1] /\ CentralOf(n)[2] = Central
  BY <1>2
<1>4. IsCentral(CentralOf(n)) /\ Local(n, CentralOf(n)) /\ Local(CentralOf(n), n)
  BY <1>3 DEF IsCentral, Local
<1>5. Source(n, e) \in Endpoint
  BY <1>1 DEF Source
<1>6. IsCentral(n) => CentralOf(n) = n
  BY <1>1, <1>2 DEF IsCentral
<1>7. Local(n, e) => Local(e, n) /\ CentralOf(e) = CentralOf(n)
  BY <1>2 DEF Local
<1>8. CentralOf(CentralOf(n)) = CentralOf(n)
  BY <1>3, <1>2 DEF CentralOf
<1>9. QED
  BY <1>1, <1>4, <1>5, <1>6, <1>7, <1>8

LEMMA SourceIs ==
    ASSUME NEW D, NEW P, NEW n \in Endpoint, NEW e \in Endpoint, n # e, Live(D, P, n, e),
           \A c \in Endpoint : IsCentral(c) => P[c] # 0
    PROVE  Live(D, P, Source(n, e), e) /\ Forwards(D, P, Source(n, e), e)
<1>1. CASE ~IsCentral(n)
  BY <1>1, Places DEF Source, Live, Local, Forwards
<1>2. CASE IsCentral(n) /\ Local(n, e)
  BY <1>2 DEF Source, Live, Forwards, Local
<1>3. CASE IsCentral(n) /\ ~Local(n, e)
  BY <1>3, Places DEF Source, Live, Forwards
<1>4. QED
  BY <1>1, <1>2, <1>3

(* w1 is w, perhaps with more. *)
Grows(w, w1) == Len(w) <= Len(w1) /\ \A i \in 1..Len(w) : w1[i] = w[i]

LEMMA LastGrows ==
    ASSUME NEW w, NEW w1, Grows(w, w1), Len(w) \in Nat, NEW s \in Nat, s <= Len(w), NEW k, NEW i
    PROVE  IsLast(w1, s, k, i) <=> IsLast(w, s, k, i)
<1>1. \A j \in 1..s : w1[j] = w[j]
  BY DEF Grows
<1>2. QED
  BY <1>1 DEF IsLast

LEMMA LastIsOne ==
    ASSUME NEW w, NEW s \in Nat, NEW k, NEW i, NEW j, IsLast(w, s, k, i), IsLast(w, s, k, j)
    PROVE  i = j
<1>1. i \in 1..s /\ j \in 1..s /\ i <= j /\ j <= i
  BY DEF IsLast
<1>2. QED
  BY <1>1

LEMMA LastBelow ==
    ASSUME NEW w, NEW s \in Nat, NEW t \in Nat, NEW k, NEW i, IsLast(w, s, k, i), i <= t, t <= s
    PROVE  IsLast(w, t, k, i)
BY DEF IsLast

LEMMA CopyFrame ==
    ASSUME NEW e, NEW d, NEW d1, NEW a \in Nat, NEW w, NEW w1, NEW r, Copy(e, d, a, w, r),
           Len(w) \in Nat, Len(w1) \in Nat, Grows(w, w1),
           e \in DOMAIN d1.ep <=> e \in DOMAIN d.ep,
           e \in DOMAIN d.ep => /\ d1.ep[e].id = d.ep[e].id /\ d1.ep[e].recv = d.ep[e].recv
                                /\ d1.ep[e].pid = d.ep[e].pid,
           \A k \in KeysOf(e) : d1.entry[k] = d.entry[k] \/ (d.entry[k].val = Nil /\ d1.entry[k].val = Nil)
    PROVE  Copy(e, d1, a, w1, r)
<1>1. a <= Len(w1) /\ a <= Len(w)
  BY DEF Copy, Grows
<1>2. (a > 0 => e \in DOMAIN d1.ep) /\ ((e \in DOMAIN d1.ep /\ IsNow(d1.ep[e].pid, r)) => d1.ep[e].recv <= a)
  BY DEF Copy
<1>3. \A i \in 1..a : w1[i] = w[i]
  BY <1>1 DEF Grows
<1>4. ASSUME NEW k \in KeysOf(e), NEW i \in 1..a, IsLast(w1, a, k, i)
      PROVE  /\ d1.entry[k].val = w1[i].val
             /\ w1[i].val # Nil => d1.entry[k] = [owner |-> d1.ep[e].id, seq |-> i, val |-> w1[i].val, has |-> TRUE]
  BY <1>4, <1>1, LastGrows, <1>3 DEF Copy
<1>5. r = 1 => \A k \in KeysOf(e) : (\A i \in 1..a : w1[i].key # k) => d1.entry[k].val = Nil
  BY <1>3 DEF Copy
<1>6. QED
  BY <1>1, <1>2, <1>4, <1>5 DEF Copy

LEMMA OwnedFrame ==
    ASSUME NEW e, NEW d, NEW d1, NEW b \in Nat, NEW w, NEW w1, Owned(e, d, b, w),
           Len(w) \in Nat, Grows(w, w1), b <= Len(w),
           e \in DOMAIN d1.ep => e \in DOMAIN d.ep,
           e \in DOMAIN d1.ep => \A k \in OwnedBy(d1, e) : k \in OwnedBy(d, e) /\ d1.entry[k] = d.entry[k]
    PROVE  Owned(e, d1, b, w1)
<1>1. SUFFICES ASSUME e \in DOMAIN d1.ep, NEW k \in OwnedBy(d1, e)
               PROVE  /\ d1.entry[k].seq \in 1..b
                      /\ k \in KeysOf(e) =>
                            IsLast(w1, b, k, d1.entry[k].seq) /\ d1.entry[k].val = w1[d1.entry[k].seq].val
  BY DEF Owned
<1>2. k \in OwnedBy(d, e) /\ d1.entry[k] = d.entry[k] /\ e \in DOMAIN d.ep
  BY <1>1
<1>3. /\ d.entry[k].seq \in 1..b
      /\ k \in KeysOf(e) => IsLast(w, b, k, d.entry[k].seq) /\ d.entry[k].val = w[d.entry[k].seq].val
  BY <1>2 DEF Owned
<1>4. w1[d.entry[k].seq] = w[d.entry[k].seq]
  BY <1>3 DEF Grows
<1>5. k \in KeysOf(e) => IsLast(w1, b, k, d.entry[k].seq)
  BY <1>3, LastGrows
<1>6. QED
  BY <1>2, <1>3, <1>4, <1>5

(* What is covered stays so when n's copy forgets, or e writes more. *)
Softer(e, d, d1) == \A k \in KeysOf(e) : d1.entry[k].val = d.entry[k].val \/ d1.entry[k].val = Nil

LEMMA CoveredFrame ==
    ASSUME NEW n, NEW e, NEW q, NEW mk, NEW d, NEW d1, NEW a, NEW w, NEW w1, NEW r, NEW k \in KeysOf(e),
           NEW i \in 1..Len(w), NEW j, Covered(n, e, q, mk, d, a, w, r, k, i, j), Softer(e, d, d1), Grows(w, w1)
    PROVE  Covered(n, e, q, mk, d1, a, w1, r, k, i, j)
<1>1. w1[i] = w[i]
  BY DEF Grows
<1>2. Unheard(n, e, q, mk, d, a, w, r, k, i, j) => Unheard(n, e, q, mk, d1, a, w1, r, k, i, j)
  BY <1>1 DEF Unheard, Softer
<1>3. QED
  BY <1>2 DEF Covered

LEMMA FlowFrame ==
    ASSUME NEW n, NEW e, NEW q, NEW mk, NEW d, NEW d1, NEW a \in Nat, NEW w, NEW w1, NEW r,
           NEW b \in Nat, NEW b1 \in Nat, b <= b1, Flow(n, e, q, mk, d, a, w, r, b),
           Len(q) \in Nat, \A j \in 1..Len(q) : mk[j] \in Nat,
           Len(w) \in Nat, Grows(w, w1), b <= Len(w), Softer(e, d, d1)
    PROVE  Flow(n, e, q, mk, d1, a, w1, r, b1)
<1>1. a <= b1
  BY DEF Flow
<1>2. ASSUME NEW j \in 1..Len(q), Comes(q, e, r, j)
      PROVE  /\ a <= mk[j] /\ mk[j] <= b1
             /\ \A x \in q[j].entries :
                   /\ x.seq \in 1..mk[j]
                   /\ x.key \in KeysOf(e) => IsLast(w1, mk[j], x.key, x.seq) /\ x.val = w1[x.seq].val
             /\ \A k \in KeysOf(e), i \in 1..mk[j] :
                   IsLast(w1, mk[j], k, i) => Covered(n, e, q, mk, d1, a, w1, r, k, i, j)
  <2>1. /\ a <= mk[j] /\ mk[j] <= b /\ mk[j] \in Nat
        /\ \A x \in q[j].entries :
              /\ x.seq \in 1..mk[j]
              /\ x.key \in KeysOf(e) => IsLast(w, mk[j], x.key, x.seq) /\ x.val = w[x.seq].val
        /\ \A k \in KeysOf(e), i \in 1..mk[j] :
              IsLast(w, mk[j], k, i) => Covered(n, e, q, mk, d, a, w, r, k, i, j)
    BY <1>2 DEF Flow, Whole
  <2>2. mk[j] <= Len(w) /\ mk[j] <= b1
    BY <2>1
  <2>3. ASSUME NEW x \in q[j].entries
        PROVE  /\ x.seq \in 1..mk[j]
               /\ x.key \in KeysOf(e) => IsLast(w1, mk[j], x.key, x.seq) /\ x.val = w1[x.seq].val
    <3>1. x.seq \in 1..mk[j] /\ x.seq \in 1..Len(w)
      BY <2>1, <2>2
    <3>2. w1[x.seq] = w[x.seq]
      BY <3>1 DEF Grows
    <3>3. QED
      BY <3>1, <3>2, <2>1, <2>2, LastGrows
  <2>4. ASSUME NEW k \in KeysOf(e), NEW i \in 1..mk[j], IsLast(w1, mk[j], k, i)
        PROVE  Covered(n, e, q, mk, d1, a, w1, r, k, i, j)
    BY <2>4, <2>1, <2>2, LastGrows, CoveredFrame
  <2>5. QED
    BY <2>1, <2>2, <2>3, <2>4
<1>3. QED
  BY <1>1, <1>2 DEF Flow, Whole

LEMMA SentFrame ==
    ASSUME NEW n, NEW e, NEW q, NEW mk, NEW d, NEW d1, NEW a, NEW w, NEW w1, NEW r,
           NEW pd, NEW pd1, NEW b \in Nat, Sent(n, e, q, mk, d, a, w, r, pd, b),
           Len(w) \in Nat, Grows(w, w1), b <= Len(w), Softer(e, d, d1),
           \A k \in KeysOf(e), i \in 1..b : Pending(pd, e, k, i) => Pending(pd1, e, k, i)
    PROVE  Sent(n, e, q, mk, d1, a, w1, r, pd1, b)
<1>1. SUFFICES ASSUME NEW k \in KeysOf(e), NEW i \in 1..b, IsLast(w1, b, k, i)
               PROVE  Covered(n, e, q, mk, d1, a, w1, r, k, i, Len(q)) \/ Pending(pd1, e, k, i)
  BY DEF Sent
<1>2. IsLast(w, b, k, i) /\ i \in 1..Len(w)
  BY <1>1, LastGrows
<1>3. Covered(n, e, q, mk, d, a, w, r, k, i, Len(q)) \/ Pending(pd, e, k, i)
  BY <1>2 DEF Sent
<1>4. QED
  BY <1>2, <1>3, CoveredFrame

LEMMA NothingFrame ==
    ASSUME NEW e, NEW q, NEW d, NEW d1, NEW a, Nothing(e, q, d, a), Softer(e, d, d1)
    PROVE  Nothing(e, q, d1, a)
BY DEF Nothing, Softer

LEMMA SameGrows ==
    ASSUME NEW w, Len(w) \in Nat
    PROVE  Grows(w, w)
BY DEF Grows

-----------------------------------------------------------------------------
(* Messages that come and go. *)

Follows(q1, q) == Len(q) <= Len(q1) /\ \A j \in 1..Len(q) : q1[j] = q[j]

LEMMA CoveredLater ==
    ASSUME NEW n, NEW e, NEW q, NEW q1, Len(q) \in Nat, Len(q1) \in Nat, Follows(q1, q),
           NEW mk, NEW mk1, \A l \in 1..Len(q) : mk1[l] = mk[l],
           NEW d, NEW a, NEW w, NEW r, NEW k, NEW i, NEW j \in 0..Len(q), NEW j1 \in j..Len(q1),
           Covered(n, e, q, mk, d, a, w, r, k, i, j),
           \A l \in j + 1..j1 : About(q1[l], e) => ~Mentions(q1[l], k) /\ (Comes(q1, e, r, l) => mk1[l] = 0 \/ i <= mk1[l])
    PROVE  Covered(n, e, q1, mk1, d, a, w, r, k, i, j1)
<1>1. \A l \in 1..j : q1[l] = q[l] /\ l \in 1..j1 /\ l \in 1..Len(q) /\ l \in 1..Len(q1)
  BY DEF Follows
<1>2. CASE \E l \in 1..j : Comes(q, e, r, l) /\ Gives(q[l], k, i)
  BY <1>2, <1>1 DEF Comes, Covered
<1>3. CASE Unheard(n, e, q, mk, d, a, w, r, k, i, j)
  BY <1>1, <1>3 DEF Unheard, Comes, Covered
<1>4. QED
  BY <1>2, <1>3 DEF Covered

(* Messages that are not about e are appended. *)
Silent(q1, q, e) == \A j \in 1..Len(q1) : j > Len(q) => ~About(q1[j], e)

LEMMA CoveredSilent ==
    ASSUME NEW n, NEW e, NEW q, NEW q1, Len(q) \in Nat, Len(q1) \in Nat, Follows(q1, q), Silent(q1, q, e),
           NEW mk, NEW mk1, \A l \in 1..Len(q) : mk1[l] = mk[l],
           NEW d, NEW a, NEW w, NEW r, NEW k, NEW i, Covered(n, e, q, mk, d, a, w, r, k, i, Len(q))
    PROVE  Covered(n, e, q1, mk1, d, a, w, r, k, i, Len(q1))
<1>1. Len(q) \in 0..Len(q) /\ Len(q1) \in Len(q)..Len(q1)
  BY DEF Follows
<1>2. \A l \in Len(q) + 1..Len(q1) : ~About(q1[l], e)
  BY DEF Silent
<1>3. QED
  BY <1>1, <1>2, CoveredLater

LEMMA FlowSilent ==
    ASSUME NEW n, NEW e, NEW q, NEW q1, Len(q) \in Nat, Len(q1) \in Nat, Follows(q1, q), Silent(q1, q, e),
           NEW mk, NEW mk1, \A j \in 1..Len(q) : mk1[j] = mk[j],
           NEW d, NEW a, NEW w, NEW r, NEW b, Flow(n, e, q, mk, d, a, w, r, b)
    PROVE  Flow(n, e, q1, mk1, d, a, w, r, b)
<1>1. ASSUME NEW j \in 1..Len(q1), About(q1[j], e)
      PROVE  j \in 1..Len(q) /\ q1[j] = q[j] /\ mk1[j] = mk[j]
  BY <1>1 DEF Silent, Follows
<1>2. ASSUME NEW j, Comes(q1, e, r, j)
      PROVE  Comes(q, e, r, j) /\ j \in 1..Len(q) /\ q1[j] = q[j] /\ mk1[j] = mk[j]
  BY <1>1, <1>2 DEF Comes
<1>3. ASSUME NEW j \in 1..Len(q1), Comes(q1, e, r, j)
      PROVE  /\ a <= mk1[j] /\ mk1[j] <= b
             /\ \A x \in q1[j].entries :
                   /\ x.seq \in 1..mk1[j]
                   /\ x.key \in KeysOf(e) => IsLast(w, mk1[j], x.key, x.seq) /\ x.val = w[x.seq].val
             /\ \A k \in KeysOf(e), i \in 1..mk1[j] :
                   IsLast(w, mk1[j], k, i) => Covered(n, e, q1, mk1, d, a, w, r, k, i, j)
  BY <1>2, <1>3, CoveredLater DEF Flow, Whole
<1>4. InOrder(e, q1, mk1, r)
  BY <1>1, <1>2 DEF InOrder, Flow, Comes
<1>5. a > 0 => \A j \in 1..Len(q1) : About(q1[j], e) => Comes(q1, e, r, j)
  BY <1>1 DEF Flow, Comes
<1>6. QED
  BY <1>3, <1>4, <1>5 DEF Flow, Whole

LEMMA SentSilent ==
    ASSUME NEW n, NEW e, NEW q, NEW q1, Len(q) \in Nat, Len(q1) \in Nat, Follows(q1, q), Silent(q1, q, e),
           NEW mk, NEW mk1, \A l \in 1..Len(q) : mk1[l] = mk[l],
           NEW d, NEW a, NEW w, NEW r, NEW pd, NEW b, Sent(n, e, q, mk, d, a, w, r, pd, b)
    PROVE  Sent(n, e, q1, mk1, d, a, w, r, pd, b)
BY CoveredSilent DEF Sent

LEMMA NothingSilent ==
    ASSUME NEW e, NEW q, NEW q1, Len(q) \in Nat, Len(q1) \in Nat, Follows(q1, q), Silent(q1, q, e),
           NEW d, NEW a, Nothing(e, q, d, a)
    PROVE  Nothing(e, q1, d, a)
<1>1. \A j \in 1..Len(q1) : ~About(q1[j], e)
  BY DEF Follows, Silent, Nothing
<1>2. QED
  BY <1>1 DEF Nothing

(* A message that has nothing of e is taken away. *)
Empty(m, e) == About(m, e) => m.entries = {}

Skips(q1, q, i) ==
    /\ i \in 1..Len(q) /\ Len(q1) = Len(q) - 1
    /\ \A j \in 1..Len(q1) : Skip(i, j) \in 1..Len(q) /\ Skip(i, j) # i /\ q1[j] = q[Skip(i, j)]
    /\ \A l, j \in 1..Len(q1) : l < j <=> Skip(i, l) < Skip(i, j)
    /\ \A g \in 1..Len(q) : g # i => \E l \in 1..Len(q1) : Skip(i, l) = g

LEMMA SkipIs ==
    ASSUME NEW q, NEW q1, Len(q) \in Nat, Len(q1) \in Nat, NEW i, Without(q1, q, i)
    PROVE  Skips(q1, q, i)
<1>1. i \in Nat /\ i \in 1..Len(q) /\ Len(q1) = Len(q) - 1
  BY DEF Without
<1>2. ASSUME NEW g \in 1..Len(q), g # i PROVE \E l \in 1..Len(q1) : Skip(i, l) = g
  <2>1. CASE g < i
    BY <2>1, <1>1 DEF Skip
  <2>2. CASE g > i
    BY <2>2, <1>1 DEF Skip
  <2>3. QED
    BY <2>1, <2>2, <1>2, <1>1
<1>3. ASSUME NEW j \in 1..Len(q1) PROVE Skip(i, j) \in 1..Len(q) /\ Skip(i, j) # i /\ q1[j] = q[Skip(i, j)]
  BY <1>1 DEF Skip, Without
<1>4. \A l, j \in 1..Len(q1) : l < j <=> Skip(i, l) < Skip(i, j)
  BY <1>1 DEF Skip
<1>5. QED
  BY <1>1, <1>2, <1>3, <1>4 DEF Skips

LEMMA CoveredWithout ==
    ASSUME NEW n, NEW e, NEW q, NEW q1, Len(q) \in Nat, Len(q1) \in Nat, NEW g, Without(q1, q, g), Empty(q[g], e),
           NEW mk, NEW mk1, \A l \in 1..Len(q1) : mk1[l] = mk[Skip(g, l)],
           NEW d, NEW a, NEW w, NEW r, NEW k, NEW i, NEW j \in 0..Len(q1), NEW j1 \in 0..Len(q),
           Covered(n, e, q, mk, d, a, w, r, k, i, j1),
           \A l \in 1..Len(q1) : Skip(g, l) <= j1 <=> l <= j
    PROVE  Covered(n, e, q1, mk1, d, a, w, r, k, i, j)
<1>0. Skips(q1, q, g)
  BY SkipIs
<1>1. \A l \in 1..Len(q1) : Skip(g, l) \in 1..Len(q) /\ q1[l] = q[Skip(g, l)]
  BY <1>0 DEF Skips
<1>5. \A h \in 1..Len(q) : h # g => \E l \in 1..Len(q1) : Skip(g, l) = h
  BY <1>0 DEF Skips
<1>2. CASE \E h \in 1..j1 : Comes(q, e, r, h) /\ Gives(q[h], k, i)
  <2>1. PICK h \in 1..j1 : Comes(q, e, r, h) /\ Gives(q[h], k, i)
    BY <1>2
  <2>2. h # g
    BY <2>1 DEF Gives, Comes, Empty
  <2>3. PICK l \in 1..Len(q1) : Skip(g, l) = h
    BY <2>1, <2>2, <1>5
  <2>4. l \in 1..j
    BY <2>1, <2>3
  <2>5. Comes(q1, e, r, l) /\ Gives(q1[l], k, i)
    BY <2>1, <2>3, <1>1 DEF Comes
  <2>6. QED
    BY <2>4, <2>5 DEF Covered
<1>3. CASE Unheard(n, e, q, mk, d, a, w, r, k, i, j1)
  <2>1. ASSUME NEW l \in 1..j, About(q1[l], e)
        PROVE  ~Mentions(q1[l], k) /\ (Comes(q1, e, r, l) => mk1[l] = 0 \/ i <= mk1[l])
    <3>1. l \in 1..Len(q1) /\ l <= j
      OBVIOUS
    <3>2. Skip(g, l) \in 1..j1 /\ q1[l] = q[Skip(g, l)] /\ mk1[l] = mk[Skip(g, l)] /\ Skip(g, l) \in 1..Len(q)
      BY <3>1, <1>1
    <3>3. Comes(q1, e, r, l) => Comes(q, e, r, Skip(g, l))
      BY <3>2 DEF Comes
    <3>4. QED
      BY <3>2, <3>3, <2>1, <1>3 DEF Unheard
  <2>2. QED
    BY <2>1, <1>3 DEF Covered, Unheard, Comes
<1>4. QED
  BY <1>2, <1>3 DEF Covered

LEMMA FlowWithout ==
    ASSUME NEW n, NEW e, NEW q, NEW q1, Len(q) \in Nat, Len(q1) \in Nat, NEW g, Without(q1, q, g), Empty(q[g], e),
           NEW mk, NEW mk1, \A j \in 1..Len(q1) : mk1[j] = mk[Skip(g, j)],
           NEW d, NEW a, NEW w, NEW r, NEW b, Flow(n, e, q, mk, d, a, w, r, b)
    PROVE  Flow(n, e, q1, mk1, d, a, w, r, b)
<1>0. Skips(q1, q, g)
  BY SkipIs
<1>1. /\ \A l \in 1..Len(q1) : Skip(g, l) \in 1..Len(q) /\ q1[l] = q[Skip(g, l)]
      /\ \A l, j \in 1..Len(q1) : l < j <=> Skip(g, l) < Skip(g, j)
  BY <1>0 DEF Skips
<1>2. ASSUME NEW j \in 1..Len(q1) PROVE Comes(q1, e, r, j) <=> Comes(q, e, r, Skip(g, j))
  BY <1>1 DEF Comes
<1>3. ASSUME NEW j \in 1..Len(q1), Comes(q1, e, r, j)
      PROVE  /\ a <= mk1[j] /\ mk1[j] <= b
             /\ \A x \in q1[j].entries :
                   /\ x.seq \in 1..mk1[j]
                   /\ x.key \in KeysOf(e) => IsLast(w, mk1[j], x.key, x.seq) /\ x.val = w[x.seq].val
             /\ \A k \in KeysOf(e), i \in 1..mk1[j] :
                   IsLast(w, mk1[j], k, i) => Covered(n, e, q1, mk1, d, a, w, r, k, i, j)
  <2> DEFINE h == Skip(g, j)
  <2>1. h \in 1..Len(q) /\ Comes(q, e, r, h) /\ q1[j] = q[h] /\ mk1[j] = mk[h]
    BY <1>1, <1>2, <1>3
  <2>2. /\ a <= mk[h] /\ mk[h] <= b
        /\ \A x \in q[h].entries :
              /\ x.seq \in 1..mk[h]
              /\ x.key \in KeysOf(e) => IsLast(w, mk[h], x.key, x.seq) /\ x.val = w[x.seq].val
        /\ \A k \in KeysOf(e), i \in 1..mk[h] :
              IsLast(w, mk[h], k, i) => Covered(n, e, q, mk, d, a, w, r, k, i, h)
    BY <2>1 DEF Flow, Whole
  <2>3. ASSUME NEW k, NEW i, Covered(n, e, q, mk, d, a, w, r, k, i, h)
        PROVE  Covered(n, e, q1, mk1, d, a, w, r, k, i, j)
    <3>1. j \in 0..Len(q1) /\ h \in 0..Len(q)
      BY <2>1
    <3>2. \A l \in 1..Len(q1) : Skip(g, l) <= h <=> l <= j
      <4>1. ASSUME NEW l \in 1..Len(q1) PROVE Skip(g, l) <= h <=> l <= j
        <5>1. h < Skip(g, l) <=> j < l
          BY <1>1
        <5>2. h \in Nat /\ Skip(g, l) \in Nat /\ l \in Nat /\ j \in Nat
          BY <1>1
        <5> HIDE DEF h
        <5>3. QED
          BY <5>1, <5>2
      <4>2. QED
        BY <4>1
    <3> HIDE DEF h
    <3>3. QED
      BY <3>1, <3>2, <2>3, CoveredWithout
  <2>4. QED
    BY <2>1, <2>2, <2>3
<1>4. InOrder(e, q1, mk1, r)
  BY <1>1, <1>2 DEF InOrder, Flow
<1>5. a > 0 => \A j \in 1..Len(q1) : About(q1[j], e) => Comes(q1, e, r, j)
  BY <1>1, <1>2 DEF Flow
<1>6. QED
  BY <1>3, <1>4, <1>5 DEF Flow, Whole

LEMMA SentWithout ==
    ASSUME NEW n, NEW e, NEW q, NEW q1, Len(q) \in Nat, Len(q1) \in Nat, NEW g, Without(q1, q, g), Empty(q[g], e),
           NEW mk, NEW mk1, \A l \in 1..Len(q1) : mk1[l] = mk[Skip(g, l)],
           NEW d, NEW a, NEW w, NEW r, NEW pd, NEW b, Sent(n, e, q, mk, d, a, w, r, pd, b)
    PROVE  Sent(n, e, q1, mk1, d, a, w, r, pd, b)
<1>0. Skips(q1, q, g)
  BY SkipIs
<1>1. ASSUME NEW k, NEW i, Covered(n, e, q, mk, d, a, w, r, k, i, Len(q))
      PROVE  Covered(n, e, q1, mk1, d, a, w, r, k, i, Len(q1))
  BY <1>0, <1>1, CoveredWithout DEF Skips
<1>2. QED
  BY <1>1 DEF Sent

LEMMA NothingWithout ==
    ASSUME NEW e, NEW q, NEW q1, Len(q) \in Nat, Len(q1) \in Nat, NEW g, Without(q1, q, g),
           NEW d, NEW a, Nothing(e, q, d, a)
    PROVE  Nothing(e, q1, d, a)
<1>0. Skips(q1, q, g)
  BY SkipIs
<1>1. \A l \in 1..Len(q1) : Skip(g, l) \in 1..Len(q) /\ q1[l] = q[Skip(g, l)]
  BY <1>0 DEF Skips
<1>2. QED
  BY <1>1 DEF Nothing

(* Two neighbours of different endpoints change places. *)
Turn(i, j) == IF j = i THEN i + 1 ELSE IF j = i + 1 THEN i ELSE j
Turned(q1, q, i) ==
    /\ i \in 1..Len(q) - 1 /\ Len(q1) = Len(q)
    /\ \A j \in 1..Len(q) : q1[j] = q[Turn(i, j)]

LEMMA TurnIs ==
    ASSUME NEW q, NEW q1, Len(q) \in Nat, NEW i, Turned(q1, q, i)
    PROVE  /\ i \in 1..Len(q) - 1 /\ Len(q1) = Len(q)
           /\ \A j \in 1..Len(q) : Turn(i, j) \in 1..Len(q) /\ Turn(i, Turn(i, j)) = j /\ q1[j] = q[Turn(i, j)]
           /\ \A l, j \in 1..Len(q) : (l < j /\ ~(l = i /\ j = i + 1)) => Turn(i, l) < Turn(i, j)
<1>1. i \in 1..Len(q) - 1 /\ Len(q1) = Len(q) /\ i \in Nat
  BY DEF Turned
<1>2. ASSUME NEW j \in 1..Len(q)
      PROVE  Turn(i, j) \in 1..Len(q) /\ Turn(i, Turn(i, j)) = j
  BY <1>1 DEF Turn
<1>3. \A l, j \in 1..Len(q) : (l < j /\ ~(l = i /\ j = i + 1)) => Turn(i, l) < Turn(i, j)
  BY <1>1 DEF Turn
<1>4. QED
  BY <1>1, <1>2, <1>3 DEF Turned

LEMMA CoveredTurned ==
    ASSUME NEW n, NEW e, NEW q, NEW q1, Len(q) \in Nat, NEW g, Turned(q1, q, g),
           NEW mk, NEW mk1, \A l \in 1..Len(q) : mk1[l] = mk[Turn(g, l)],
           NEW d, NEW a, NEW w, NEW r, NEW k, NEW i, NEW j \in 0..Len(q), NEW j1 \in 0..Len(q),
           Covered(n, e, q, mk, d, a, w, r, k, i, j1),
           \A l \in 1..Len(q) : About(q[l], e) => (l <= j1 <=> Turn(g, l) <= j)
    PROVE  Covered(n, e, q1, mk1, d, a, w, r, k, i, j)
<1>1. /\ Len(q1) = Len(q)
      /\ \A l \in 1..Len(q) : Turn(g, l) \in 1..Len(q) /\ Turn(g, Turn(g, l)) = l /\ q1[l] = q[Turn(g, l)]
  BY TurnIs
<1>2. CASE \E l \in 1..j1 : Comes(q, e, r, l) /\ Gives(q[l], k, i)
  <2>1. PICK l \in 1..j1 : Comes(q, e, r, l) /\ Gives(q[l], k, i)
    BY <1>2
  <2>2. l \in 1..Len(q) /\ About(q[l], e)
    BY <2>1 DEF Comes
  <2>3. Turn(g, l) \in 1..j /\ q1[Turn(g, l)] = q[l] /\ Turn(g, l) \in 1..Len(q1)
    BY <2>1, <2>2, <1>1
  <2>4. Comes(q1, e, r, Turn(g, l)) /\ Gives(q1[Turn(g, l)], k, i)
    BY <2>1, <2>3 DEF Comes
  <2>5. QED
    BY <2>3, <2>4 DEF Covered
<1>3. CASE Unheard(n, e, q, mk, d, a, w, r, k, i, j1)
  <2>1. ASSUME NEW l \in 1..j, About(q1[l], e)
        PROVE  ~Mentions(q1[l], k) /\ (Comes(q1, e, r, l) => mk1[l] = 0 \/ i <= mk1[l])
    BY <1>1, <2>1, <1>3 DEF Comes, Unheard
  <2>2. QED
    BY <2>1, <1>3 DEF Covered, Unheard, Comes
<1>4. QED
  BY <1>2, <1>3 DEF Covered

LEMMA FlowTurned ==
    ASSUME NEW n, NEW e, NEW q, NEW q1, Len(q) \in Nat, NEW g, Turned(q1, q, g),
           ~(About(q[g], e) /\ About(q[g + 1], e)),
           NEW mk, NEW mk1, \A j \in 1..Len(q) : mk1[j] = mk[Turn(g, j)],
           NEW d, NEW a, NEW w, NEW r, NEW b, Flow(n, e, q, mk, d, a, w, r, b)
    PROVE  Flow(n, e, q1, mk1, d, a, w, r, b)
<1>1. /\ g \in 1..Len(q) - 1 /\ Len(q1) = Len(q)
      /\ \A l \in 1..Len(q) : Turn(g, l) \in 1..Len(q) /\ Turn(g, Turn(g, l)) = l /\ q1[l] = q[Turn(g, l)]
  BY TurnIs
<1>2. \A l, j \in 1..Len(q) : (l < j /\ ~(l = g /\ j = g + 1)) => Turn(g, l) < Turn(g, j)
  BY TurnIs
<1>3. Turn(g, g) = g + 1 /\ Turn(g, g + 1) = g
  BY <1>1 DEF Turn
<1>4. ASSUME NEW l \in 1..Len(q), NEW j \in 1..Len(q), About(q1[l], e), About(q1[j], e)
      PROVE  l < j <=> Turn(g, l) < Turn(g, j)
  BY <1>1, <1>3, <1>4, <1>2
<1>5. ASSUME NEW j \in 1..Len(q) PROVE Comes(q1, e, r, j) <=> Comes(q, e, r, Turn(g, j))
  BY <1>1 DEF Comes
<1>6. ASSUME NEW j \in 1..Len(q1), Comes(q1, e, r, j)
      PROVE  /\ a <= mk1[j] /\ mk1[j] <= b
             /\ \A x \in q1[j].entries :
                   /\ x.seq \in 1..mk1[j]
                   /\ x.key \in KeysOf(e) => IsLast(w, mk1[j], x.key, x.seq) /\ x.val = w[x.seq].val
             /\ \A k \in KeysOf(e), i \in 1..mk1[j] :
                   IsLast(w, mk1[j], k, i) => Covered(n, e, q1, mk1, d, a, w, r, k, i, j)
  <2> DEFINE h == Turn(g, j)
  <2>1. /\ j \in 1..Len(q) /\ h \in 1..Len(q) /\ Comes(q, e, r, h) /\ q1[j] = q[h] /\ mk1[j] = mk[h]
        /\ Turn(g, h) = j
    BY <1>1, <1>5, <1>6
  <2>2. /\ a <= mk[h] /\ mk[h] <= b
        /\ \A x \in q[h].entries :
              /\ x.seq \in 1..mk[h]
              /\ x.key \in KeysOf(e) => IsLast(w, mk[h], x.key, x.seq) /\ x.val = w[x.seq].val
        /\ \A k \in KeysOf(e), i \in 1..mk[h] :
              IsLast(w, mk[h], k, i) => Covered(n, e, q, mk, d, a, w, r, k, i, h)
    BY <2>1 DEF Flow, Whole
  <2>3. ASSUME NEW k, NEW i, Covered(n, e, q, mk, d, a, w, r, k, i, h)
        PROVE  Covered(n, e, q1, mk1, d, a, w, r, k, i, j)
    <3>1. j \in 0..Len(q) /\ h \in 0..Len(q)
      BY <2>1
    <3>2. ASSUME NEW l \in 1..Len(q), About(q[l], e) PROVE l <= h <=> Turn(g, l) <= j
      <4>1. /\ Turn(g, l) \in 1..Len(q) /\ About(q1[Turn(g, l)], e) /\ Turn(g, Turn(g, l)) = l
        BY <1>1, <3>2
      <4>2. About(q1[j], e)
        BY <1>6 DEF Comes
      <4>3. j < Turn(g, l) <=> h < l
        BY <4>1, <4>2, <2>1, <1>4
      <4>4. j \in Nat /\ Turn(g, l) \in Nat /\ h \in Nat /\ l \in Nat
        BY <4>1, <2>1
      <4> HIDE DEF h
      <4>5. QED
        BY <4>3, <4>4
    <3> HIDE DEF h
    <3>3. QED
      BY <3>1, <3>2, <2>3, CoveredTurned
  <2>4. QED
    BY <2>1, <2>2, <2>3
<1>7. InOrder(e, q1, mk1, r)
  <2>1. SUFFICES ASSUME NEW l \in 1..Len(q), NEW j \in 1..Len(q), l < j, Comes(q1, e, r, l), About(q1[j], e)
                 PROVE  Comes(q1, e, r, j) /\ mk1[l] <= mk1[j]
    BY <1>1 DEF InOrder
  <2>2. About(q1[l], e)
    BY <2>1 DEF Comes
  <2>3. Turn(g, l) < Turn(g, j) /\ Comes(q, e, r, Turn(g, l)) /\ About(q[Turn(g, j)], e)
    BY <2>1, <2>2, <1>1, <1>4, <1>5
  <2>4. Comes(q, e, r, Turn(g, j)) /\ mk[Turn(g, l)] <= mk[Turn(g, j)]
    BY <2>3, <1>1 DEF Flow, InOrder
  <2>5. QED
    BY <2>4, <1>5
<1>8. a > 0 => \A j \in 1..Len(q1) : About(q1[j], e) => Comes(q1, e, r, j)
  BY <1>1, <1>5 DEF Flow
<1>9. QED
  BY <1>6, <1>7, <1>8 DEF Flow, Whole

LEMMA SentTurned ==
    ASSUME NEW n, NEW e, NEW q, NEW q1, Len(q) \in Nat, NEW g, Turned(q1, q, g),
           NEW mk, NEW mk1, \A l \in 1..Len(q) : mk1[l] = mk[Turn(g, l)],
           NEW d, NEW a, NEW w, NEW r, NEW pd, NEW b, Sent(n, e, q, mk, d, a, w, r, pd, b)
    PROVE  Sent(n, e, q1, mk1, d, a, w, r, pd, b)
<1>1. ASSUME NEW k, NEW i, Covered(n, e, q, mk, d, a, w, r, k, i, Len(q))
      PROVE  Covered(n, e, q1, mk1, d, a, w, r, k, i, Len(q1))
  <2>1. Len(q) \in 0..Len(q) /\ Len(q1) = Len(q)
    BY DEF Turned
  <2>2. \A l \in 1..Len(q) : About(q[l], e) => (l <= Len(q) <=> Turn(g, l) <= Len(q))
    BY TurnIs
  <2>3. QED
    BY <2>1, <2>2, <1>1, CoveredTurned
<1>2. QED
  BY <1>1 DEF Sent

LEMMA NothingTurned ==
    ASSUME NEW e, NEW q, NEW q1, Len(q) \in Nat, NEW g, Turned(q1, q, g), NEW d, NEW a, Nothing(e, q, d, a)
    PROVE  Nothing(e, q1, d, a)
<1>1. Len(q1) = Len(q) /\ \A l \in 1..Len(q1) : Turn(g, l) \in 1..Len(q) /\ q1[l] = q[Turn(g, l)]
  BY TurnIs
<1>2. QED
  BY <1>1 DEF Nothing

-----------------------------------------------------------------------------
(* What good states have. *)

LEMMA ModuleFacts ==
    ASSUME NEW D, NEW I, NEW P, NEW W, NEW s, NEW at, NEW mk, Good(D, I, P, W, s, at, mk), NEW n \in Endpoint
    PROVE  /\ IsDb(D[n]) /\ Numbered(D[n], n, W[n]) /\ at[n][n] = Len(W[n])
           /\ I[n] \in Seq(Message) /\ Len(I[n]) \in Nat /\ W[n] \in Seq(WriteType) /\ Len(W[n]) \in Nat
           /\ mk[n] \in Seq(Nat) /\ Len(mk[n]) = Len(I[n])
           /\ \A j \in 1..Len(I[n]) : mk[n][j] \in Nat /\ I[n][j] \in Message
           /\ P[n] \in Nat /\ Proc(D, n) \in Nat /\ Proc(D, n) >= 1
           /\ P[n] # 0 => P[n] = Proc(D, n)
<1>1. IsDb(D[n]) /\ Numbered(D[n], n, W[n]) /\ P[n] \in Nat /\ P[n] \in {0, Proc(D, n)} /\ 1 <= Proc(D, n)
  BY DEF Good, Base
<1>2. I[n] \in Seq(Message) /\ W[n] \in Seq(WriteType)
  BY DEF Good, Base
<1>3. /\ Len(I[n]) \in Nat /\ Len(W[n]) \in Nat /\ \A j \in 1..Len(I[n]) : I[n][j] \in Message
  BY <1>2
<1>4. at[n][n] = Len(W[n]) /\ mk[n] \in Seq(Nat) /\ Len(mk[n]) = Len(I[n])
  BY DEF Good, Marked
<1>5. \A j \in 1..Len(I[n]) : mk[n][j] \in Nat
  BY <1>4
<1>6. Proc(D, n) \in Nat /\ Proc(D, n) >= 1
  BY <1>1, RecordIs DEF Numbered, Proc
<1>7. QED
  BY <1>1, <1>2, <1>3, <1>4, <1>5, <1>6

LEMMA PairFacts ==
    ASSUME NEW D, NEW I, NEW P, NEW W, NEW s, NEW at, NEW mk, Good(D, I, P, W, s, at, mk),
           NEW n \in Endpoint, NEW e \in Endpoint
    PROVE  at[n][e] \in Nat /\ Source(n, e) \in Endpoint /\ at[Source(n, e)][e] \in Nat
<1>1. \A m, f \in Endpoint : at[m][f] \in Nat
  BY DEF Good, Marked
<1>2. Source(n, e) \in Endpoint
  BY Places
<1>3. QED
  BY <1>1, <1>2

LEMMA CentralsRun ==
    ASSUME NEW D, NEW I, NEW P, NEW W, NEW s, Base(D, I, P, W, s)
    PROVE  \A c \in Endpoint : IsCentral(c) => P[c] = 1 /\ P[c] # 0
<1>1. \A c \in Endpoint : IsCentral(c) => P[c] = 1
  BY DEF Base
<1>2. QED
  BY <1>1

(* A copy that is followed is at most where its source is, and that at most *)
(* where the writer is.                                                    *)
LEMMA LiveIs ==
    ASSUME NEW D, NEW I, NEW P, NEW W, NEW s, NEW at, NEW mk, Good(D, I, P, W, s, at, mk),
           NEW n \in Endpoint, NEW e \in Endpoint, Live(D, P, n, e)
    PROVE  /\ Copy(e, D[n], at[n][e], W[e], Proc(D, e)) /\ at[n][e] <= Len(W[e])
           /\ n # e => /\ Live(D, P, Source(n, e), e) /\ Forwards(D, P, Source(n, e), e)
                       /\ Copy(e, D[Source(n, e)], at[Source(n, e)][e], W[e], Proc(D, e))
                       /\ Owned(e, D[Source(n, e)], at[Source(n, e)][e], W[e])
                       /\ at[n][e] <= at[Source(n, e)][e] /\ at[Source(n, e)][e] <= Len(W[e])
                       /\ Flow(n, e, I[n], mk[n], D[n], at[n][e], W[e], Proc(D, e), at[Source(n, e)][e])
<1>1. \A c \in Endpoint : Live(D, P, c, e) => Copy(e, D[c], at[c][e], W[e], Proc(D, e)) /\ at[c][e] <= Len(W[e])
  BY DEF Good, Copying, Copy
<1>2. ASSUME n # e
      PROVE  /\ Live(D, P, Source(n, e), e) /\ Forwards(D, P, Source(n, e), e)
             /\ Flow(n, e, I[n], mk[n], D[n], at[n][e], W[e], Proc(D, e), at[Source(n, e)][e])
             /\ at[n][e] <= at[Source(n, e)][e]
             /\ Owned(e, D[Source(n, e)], at[Source(n, e)][e], W[e]) /\ Source(n, e) \in Endpoint
  BY CentralsRun, <1>2, SourceIs, Places DEF Good, Flowing, Flow, Owning
<1>3. QED
  BY <1>1, <1>2

(* Which module owns which key. *)
LEMMA KeyIs ==
    ASSUME NEW e \in Endpoint, NEW f \in Endpoint, NEW k \in KeysOf(e), NEW v, KeyFrom(f, k, v), f # e
    PROVE  /\ e \in Modules /\ ~IsCentral(e) /\ f = CentralOf(e) /\ k = PortsOf[e] /\ v = Nil
<1>1. WriterOf[k] = e
  BY DEF KeysOf
<1>2. PICK m \in Modules : f = CentralOf(m) /\ k = PortsOf[m] /\ v = Nil
  BY <1>1 DEF KeyFrom
<1>3. WriterOf[PortsOf[m]] = m
  BY MnemosynthAssumption
<1>4. QED
  BY <1>1, <1>2, <1>3 DEF Modules

-----------------------------------------------------------------------------
(* What a step that changes nothing of e's way to n leaves.                *)

LEMMA FlowStays ==
    ASSUME NEW D, NEW I, NEW P, NEW W, NEW s, NEW at, NEW mk, Good(D, I, P, W, s, at, mk),
           NEW n \in Endpoint, NEW e \in Endpoint, n # e, Live(D, P, n, e),
           NEW d1, Softer(e, D[n], d1), NEW w1, Grows(W[e], w1), NEW b1 \in Nat, at[Source(n, e)][e] <= b1
    PROVE  Flow(n, e, I[n], mk[n], d1, at[n][e], w1, Proc(D, e), b1)
<1>1. /\ at[n][e] \in Nat /\ at[Source(n, e)][e] \in Nat /\ Len(I[n]) \in Nat
      /\ \A j \in 1..Len(I[n]) : mk[n][j] \in Nat
  BY PairFacts, ModuleFacts
<1>2. Len(W[e]) \in Nat
  BY ModuleFacts
<1>3. /\ at[Source(n, e)][e] <= Len(W[e])
      /\ Flow(n, e, I[n], mk[n], D[n], at[n][e], W[e], Proc(D, e), at[Source(n, e)][e])
  BY LiveIs
<1>4. QED
  BY <1>1, <1>2, <1>3, FlowFrame

LEMMA SentStays ==
    ASSUME NEW D, NEW I, NEW P, NEW W, NEW s, NEW at, NEW mk, Good(D, I, P, W, s, at, mk),
           NEW n \in Endpoint, NEW e \in Endpoint, n # e, Live(D, P, n, e), Linked(n, e, D[Source(n, e)]),
           NEW d1, Softer(e, D[n], d1), NEW w1, Grows(W[e], w1), NEW pd1,
           \A k \in KeysOf(e), i \in 1..at[Source(n, e)][e] :
              Pending(D[Source(n, e)], e, k, i) => Pending(pd1, e, k, i)
    PROVE  Sent(n, e, I[n], mk[n], d1, at[n][e], w1, Proc(D, e), pd1, at[Source(n, e)][e])
<1>1. /\ at[Source(n, e)][e] \in Nat
  BY PairFacts
<1>2. Len(W[e]) \in Nat
  BY ModuleFacts
<1>3. at[Source(n, e)][e] <= Len(W[e])
  BY LiveIs
<1>4. Sent(n, e, I[n], mk[n], D[n], at[n][e], W[e], Proc(D, e), D[Source(n, e)], at[Source(n, e)][e])
  BY DEF Good, Sending
<1>5. QED
  BY <1>1, <1>2, <1>3, <1>4, SentFrame

LEMMA NothingStays ==
    ASSUME NEW D, NEW I, NEW P, NEW W, NEW s, NEW at, NEW mk, Good(D, I, P, W, s, at, mk),
           NEW n \in Endpoint, NEW e \in Endpoint, n # e, P[n] # 0, ~Linked(n, e, D[Source(n, e)]),
           NEW d1, Softer(e, D[n], d1)
    PROVE  Nothing(e, I[n], d1, at[n][e])
<1>1. Nothing(e, I[n], D[n], at[n][e])
  BY DEF Good, Starting
<1>2. QED
  BY <1>1, NothingFrame

LEMMA CopyStays ==
    ASSUME NEW D, NEW I, NEW P, NEW W, NEW s, NEW at, NEW mk, Good(D, I, P, W, s, at, mk),
           NEW n \in Endpoint, NEW e \in Endpoint, Live(D, P, n, e),
           NEW d1, NEW w1, Grows(W[e], w1), Len(w1) \in Nat,
           e \in DOMAIN d1.ep <=> e \in DOMAIN D[n].ep,
           e \in DOMAIN D[n].ep => /\ d1.ep[e].id = D[n].ep[e].id /\ d1.ep[e].recv = D[n].ep[e].recv
                                   /\ d1.ep[e].pid = D[n].ep[e].pid,
           \A k \in KeysOf(e) : d1.entry[k] = D[n].entry[k] \/ (D[n].entry[k].val = Nil /\ d1.entry[k].val = Nil)
    PROVE  Copy(e, d1, at[n][e], w1, Proc(D, e))
<1>1. at[n][e] \in Nat
  BY PairFacts
<1>2. Len(W[e]) \in Nat
  BY ModuleFacts
<1>3. Copy(e, D[n], at[n][e], W[e], Proc(D, e))
  BY LiveIs
<1>4. QED
  BY <1>1, <1>2, <1>3, CopyFrame

LEMMA OwnedStays ==
    ASSUME NEW D, NEW I, NEW P, NEW W, NEW s, NEW at, NEW mk, Good(D, I, P, W, s, at, mk),
           NEW p \in Endpoint, NEW e \in Endpoint, Forwards(D, P, p, e), 
           NEW d1, NEW w1, Grows(W[e], w1),
           e \in DOMAIN d1.ep => e \in DOMAIN D[p].ep,
           e \in DOMAIN d1.ep => \A k \in OwnedBy(d1, e) : k \in OwnedBy(D[p], e) /\ d1.entry[k] = D[p].entry[k]
    PROVE  Owned(e, d1, at[p][e], w1)
<1>1. at[p][e] \in Nat
  BY PairFacts
<1>2. Len(W[e]) \in Nat /\ at[e][e] = Len(W[e])
  BY ModuleFacts
<1>3. Owned(e, D[p], at[p][e], W[e])
  BY DEF Good, Owning
<1>4. at[p][e] <= Len(W[e])
  BY <1>1, <1>2, CentralsRun, LiveIs DEF Forwards, Good, Live
<1>5. QED
  BY <1>1, <1>2, <1>3, <1>4, OwnedFrame

LEMMA SameSofter ==
    ASSUME NEW e, NEW d
    PROVE  Softer(e, d, d)
BY DEF Softer

LEMMA BaseStays ==
    ASSUME NEW D, NEW I, NEW P, NEW W, NEW s, Base(D, I, P, W, s),
           NEW D1, Total(D1), NEW W1 \in [Endpoint -> Seq(WriteType)], NEW I1 \in [Endpoint -> Seq(Message)],
           \A n \in Endpoint : IsDb(D1[n]) /\ Numbered(D1[n], n, W1[n]),
           \A n \in Endpoint : Proc(D1, n) = Proc(D, n),
           \A n \in Endpoint : \A e \in DOMAIN D1[n].ep : PidFits(D, n, e, D1[n].ep[e].pid),
           \A n \in Endpoint : \A j \in 1..Len(I1[n]) : Proper(D, n, I1[n][j])
    PROVE  Base(D1, I1, P, W1, s)
<1>1. Processes(D1)
  BY RecordIs DEF PidFits, Processes
<1>2. ASSUME NEW n \in Endpoint, NEW j \in 1..Len(I1[n]) PROVE Proper(D1, n, I1[n][j])
  <2> DEFINE m == I1[n][j]
  <2>1. Proper(D, n, m) /\ m \in Message
    OBVIOUS
  <2>2. m.type = "update" => Proc(D1, m.from) = Proc(D, m.from)
    BY <2>1, UpdateIs
  <2> HIDE DEF m
  <2>3. Proper(D1, n, m)
    BY <2>1, <2>2 DEF Proper
  <2>4. QED
    BY <2>3 DEF m
<1>3. /\ P \in [Endpoint -> Nat] /\ s \in Nat
      /\ \A e \in Endpoint :
            /\ P[e] \in {0, Proc(D, e)} /\ 1 <= Proc(D, e) /\ Proc(D, e) <= s + 1
            /\ P[e] = 0 => Proc(D, e) <= s
            /\ IsCentral(e) => P[e] = 1
  BY DEF Base
<1>4. QED
  BY <1>1, <1>2, <1>3 DEF Base
-----------------------------------------------------------------------------
(* A module writes a key of its own, or Exarch deletes the ports of one    *)
(* that has stopped.                                                       *)

LEMMA AppendIs ==
    ASSUME NEW S, NEW w \in Seq(S), NEW x \in S, NEW w1, w1 = Append(w, x)
    PROVE  /\ w1 \in Seq(S) /\ Len(w) \in Nat /\ Len(w1) = Len(w) + 1 /\ w1[Len(w) + 1] = x
           /\ \A i \in 1..Len(w) : w1[i] = w[i]
           /\ Grows(w, w1)
<1>1. /\ w1 \in Seq(S) /\ Len(w) \in Nat /\ Len(w1) = Len(w) + 1 /\ w1[Len(w) + 1] = x
      /\ \A i \in 1..Len(w) : w1[i] = w[i]
  BY AppendProperties
<1>2. QED
  BY <1>1 DEF Grows

(* c's w becomes w1 with the write of k. *)
OneMore(c, d, d1, w, w1, k, v) ==
    /\ Len(w) \in Nat /\ Len(w1) = Len(w) + 1 /\ \A i \in 1..Len(w) : w1[i] = w[i]
    /\ w1[Len(w) + 1].key = k /\ w1[Len(w) + 1].val = v /\ k \in Key
    /\ c \in DOMAIN d.ep /\ DOMAIN d1.ep = DOMAIN d.ep /\ d.ep[c].id = 0 /\ d1.ep[c].id = 0
    /\ d1.ep[c].recv = Len(w) + 1 /\ d1.ep[c].sent = d.ep[c].sent
    /\ d.ep[c].sent \in Nat /\ d.ep[c].sent <= Len(w) /\ d1.event
    /\ d1.entry[k] = [owner |-> 0, seq |-> Len(w) + 1, val |-> v, has |-> TRUE]
    /\ \A j \in Key : j # k => d1.entry[j] = d.entry[j]

LEMMA OwnCopy ==
    ASSUME NEW c, NEW d, NEW d1, NEW w, NEW w1, NEW k, NEW v, OneMore(c, d, d1, w, w1, k, v),
           NEW r, NEW b, b = Len(w), Copy(c, d, b, w, r), NEW b1, b1 = b + 1
    PROVE  Copy(c, d1, b1, w1, r)
<1>0. /\ Len(w) \in Nat /\ Len(w1) = Len(w) + 1 /\ \A i \in 1..Len(w) : w1[i] = w[i]
      /\ w1[Len(w) + 1].key = k /\ w1[Len(w) + 1].val = v /\ k \in Key
      /\ c \in DOMAIN d.ep /\ DOMAIN d1.ep = DOMAIN d.ep /\ d.ep[c].id = 0 /\ d1.ep[c].id = 0
      /\ d1.ep[c].recv = Len(w) + 1 /\ d1.ep[c].sent = d.ep[c].sent
      /\ d.ep[c].sent \in Nat /\ d.ep[c].sent <= Len(w) /\ d1.event
      /\ d1.entry[k] = [owner |-> 0, seq |-> Len(w) + 1, val |-> v, has |-> TRUE]
      /\ \A j \in Key : j # k => d1.entry[j] = d.entry[j]
  BY DEF OneMore
<1> DEFINE a == Len(w)
<1>00. KeysOf(c) \subseteq Key
  BY DEF KeysOf
<1>1. ASSUME NEW j \in KeysOf(c), NEW i \in 1..a + 1, IsLast(w1, a + 1, j, i)
      PROVE  /\ d1.entry[j].val = w1[i].val
             /\ w1[i].val # Nil => d1.entry[j] = [owner |-> d1.ep[c].id, seq |-> i, val |-> w1[i].val, has |-> TRUE]
  <2>1. CASE j = k
    <3>1. w1[a + 1].key = j /\ a + 1 \in 1..a + 1
      BY <1>0, <2>1
    <3>2. a + 1 <= i
      BY <1>0, <3>1, <1>1 DEF IsLast
    <3>3. i = a + 1
      BY <1>0, <3>2
    <3>4. w1[i].val = v /\ d1.entry[j].val = v
      BY <1>0, <3>3, <2>1
    <3>5. d1.entry[j] = [owner |-> d1.ep[c].id, seq |-> i, val |-> w1[i].val, has |-> TRUE]
      BY <1>0, <3>3, <3>4, <2>1
    <3>6. QED
      BY <1>0, <3>4, <3>5
  <2>2. CASE j # k
    BY <1>0, <2>2, <1>1, <1>00 DEF IsLast, Copy
  <2>3. QED
    BY <1>0, <2>1, <2>2
<1>2. ASSUME r = 1, NEW j \in KeysOf(c), \A i \in 1..a + 1 : w1[i].key # j PROVE d1.entry[j].val = Nil
  BY <1>0, <1>2, <1>00 DEF Copy
<1>3. QED
  BY <1>0, <1>1, <1>2 DEF Copy

LEMMA OwnOwned ==
    ASSUME NEW c, NEW d, NEW d1, NEW w, NEW w1, NEW k, NEW v, OneMore(c, d, d1, w, w1, k, v),
           NEW b, b = Len(w), Owned(c, d, b, w), NEW b1, b1 = b + 1
    PROVE  Owned(c, d1, b1, w1)
<1>0. /\ Len(w) \in Nat /\ Len(w1) = Len(w) + 1 /\ \A i \in 1..Len(w) : w1[i] = w[i]
      /\ w1[Len(w) + 1].key = k /\ w1[Len(w) + 1].val = v /\ k \in Key
      /\ c \in DOMAIN d.ep /\ DOMAIN d1.ep = DOMAIN d.ep /\ d.ep[c].id = 0 /\ d1.ep[c].id = 0
      /\ d1.ep[c].recv = Len(w) + 1 /\ d1.ep[c].sent = d.ep[c].sent
      /\ d.ep[c].sent \in Nat /\ d.ep[c].sent <= Len(w) /\ d1.event
      /\ d1.entry[k] = [owner |-> 0, seq |-> Len(w) + 1, val |-> v, has |-> TRUE]
      /\ \A j \in Key : j # k => d1.entry[j] = d.entry[j]
  BY DEF OneMore
<1> DEFINE a == Len(w)
<1>1. SUFFICES ASSUME NEW j \in OwnedBy(d1, c)
               PROVE  /\ d1.entry[j].seq \in 1..a + 1
                      /\ j \in KeysOf(c) =>
                            IsLast(w1, a + 1, j, d1.entry[j].seq) /\ d1.entry[j].val = w1[d1.entry[j].seq].val
  BY <1>0 DEF Owned
<1>2. CASE j = k
  BY <1>0, <1>2 DEF IsLast
<1>3. CASE j # k
  <2>1. j \in OwnedBy(d, c) /\ d1.entry[j] = d.entry[j]
    BY <1>0, <1>3 DEF OwnedBy
  <2> DEFINE i == d.entry[j].seq
  <2>2. i \in 1..a /\ (j \in KeysOf(c) => IsLast(w, a, j, i) /\ d.entry[j].val = w[i].val)
    BY <1>0, <2>1 DEF Owned
  <2> HIDE DEF i
  <2>3. j \in KeysOf(c) => IsLast(w1, a + 1, j, i)
    BY <1>0, <2>2, <1>3 DEF IsLast
  <2>4. QED
    BY <1>0, <2>1, <2>2, <2>3 DEF i
<1>4. QED
  BY <1>0, <1>2, <1>3

LEMMA OwnSent ==
    ASSUME NEW c, NEW d, NEW d1, NEW w, NEW w1, NEW k, NEW v, OneMore(c, d, d1, w, w1, k, v),
           NEW n, NEW q, NEW mk, NEW dn, NEW a, NEW r, NEW b, b = Len(w), Sent(n, c, q, mk, dn, a, w, r, d, b), NEW b1, b1 = b + 1
    PROVE  Sent(n, c, q, mk, dn, a, w1, r, d1, b1)
<1>0. /\ Len(w) \in Nat /\ Len(w1) = Len(w) + 1 /\ \A i \in 1..Len(w) : w1[i] = w[i]
      /\ w1[Len(w) + 1].key = k /\ w1[Len(w) + 1].val = v /\ k \in Key
      /\ c \in DOMAIN d.ep /\ DOMAIN d1.ep = DOMAIN d.ep /\ d.ep[c].id = 0 /\ d1.ep[c].id = 0
      /\ d1.ep[c].recv = Len(w) + 1 /\ d1.ep[c].sent = d.ep[c].sent
      /\ d.ep[c].sent \in Nat /\ d.ep[c].sent <= Len(w) /\ d1.event
      /\ d1.entry[k] = [owner |-> 0, seq |-> Len(w) + 1, val |-> v, has |-> TRUE]
      /\ \A j \in Key : j # k => d1.entry[j] = d.entry[j]
  BY DEF OneMore
<1>1. SUFFICES ASSUME NEW j \in KeysOf(c), NEW i \in 1..b + 1, IsLast(w1, b + 1, j, i)
               PROVE  Covered(n, c, q, mk, dn, a, w1, r, j, i, Len(q)) \/ Pending(d1, c, j, i)
  BY <1>0 DEF Sent
<1>2. j \in Key
  BY DEF KeysOf
<1>3. CASE j = k
  BY <1>0, <1>3, <1>1, <1>2 DEF IsLast, Pending, OwnedBy
<1>4. CASE j # k
  BY <1>0, <1>4, <1>1, <1>2 DEF IsLast, Sent, Covered, Unheard, Pending, OwnedBy
<1>5. QED
  BY <1>0, <1>3, <1>4


LEMMA LiveSame ==
    ASSUME NEW D, NEW D1, NEW P, NEW n, NEW e, Proc(D1, e) = Proc(D, e)
    PROVE  (Live(D1, P, n, e) <=> Live(D, P, n, e)) /\ (Forwards(D1, P, n, e) <=> Forwards(D, P, n, e))
BY DEF Live, Forwards

LEMMA LinkedSame ==
    ASSUME NEW n, NEW e, NEW d, NEW d1, DOMAIN d1.ep = DOMAIN d.ep,
           n \in DOMAIN d.ep => d1.ep[n].full = d.ep[n].full
    PROVE  Linked(n, e, d1) <=> Linked(n, e, d)
BY DEF Linked

(* The keys of a live module that c writes are c's own. *)
LEMMA WrittenKey ==
    ASSUME NEW P, NEW c \in Endpoint, NEW k \in Key, NEW v, KeyFrom(c, k, v),
           \A m \in Modules : (k = PortsOf[m] /\ c # m) => P[m] = 0,
           NEW e \in Endpoint, P[e] # 0, e # c
    PROVE  /\ k \notin KeysOf(e)
           /\ e \in Modules => k # PortsOf[e]
<1>1. ASSUME k \in KeysOf(e) PROVE FALSE
  BY <1>1, KeyIs
<1>2. QED
  BY <1>1

(* c writes v at k, x as its history has it. *)
Writing(D, I, P, W, s, at, mk, c, k, v, x, D1, W1, at1) ==
    /\ Good(D, I, P, W, s, at, mk) /\ c \in Endpoint /\ P[c] # 0
    /\ k \in Key /\ v \in Val /\ KeyFrom(c, k, v)
    /\ \A m \in Modules : (k = PortsOf[m] /\ c # m) => P[m] = 0
    /\ Total(D1) /\ IsWritten(D1[c], c, D[c], k, v) /\ \A n \in Endpoint : n # c => D1[n] = D[n]
    /\ x \in WriteType /\ x.key = k /\ x.val = v
    /\ Total(W1) /\ W1[c] = Append(W[c], x) /\ \A e \in Endpoint : e # c => W1[e] = W[e]
    /\ at1 \in [Endpoint -> [Endpoint -> Nat]] /\ at1[c][c] = at[c][c] + 1
    /\ \A n, e \in Endpoint : (n # c \/ e # c) => at1[n][e] = at[n][e]

LEMMA WriteKeeps ==
    ASSUME NEW D, NEW I, NEW P, NEW W, NEW s, NEW at, NEW mk, NEW c, NEW k, NEW v, NEW x, NEW D1, NEW W1, NEW at1,
           Writing(D, I, P, W, s, at, mk, c, k, v, x, D1, W1, at1)
    PROVE  Good(D1, I, P, W1, s, at1, mk)
<1> SUFFICES
      ASSUME Good(D, I, P, W, s, at, mk), c \in Endpoint, P[c] # 0, k \in Key, v \in Val, KeyFrom(c, k, v),
             \A m \in Modules : (k = PortsOf[m] /\ c # m) => P[m] = 0,
             Total(D1), \A n \in Endpoint : n # c => D1[n] = D[n],
             IsWritten(D1[c], c, D[c], k, v),
             x \in WriteType, x.key = k, x.val = v, Total(W1), W1[c] = Append(W[c], x),
             \A e \in Endpoint : e # c => W1[e] = W[e],
             at1 \in [Endpoint -> [Endpoint -> Nat]], at1[c][c] = at[c][c] + 1,
             \A n, e \in Endpoint : (n # c \/ e # c) => at1[n][e] = at[n][e]
      PROVE  Good(D1, I, P, W1, s, at1, mk)
  BY DEF Writing
<1>1. /\ IsDb(D[c]) /\ Numbered(D[c], c, W[c]) /\ at[c][c] = Len(W[c])
      /\ W[c] \in Seq(WriteType) /\ Len(W[c]) \in Nat
  BY ModuleFacts
<1>2. /\ c \in DOMAIN D[c].ep /\ D[c].ep[c].id = 0 /\ D[c].ep[c].recv = Len(W[c])
  BY <1>1 DEF Numbered
<1>3. /\ IsDb(D1[c]) /\ DOMAIN D1[c].ep = DOMAIN D[c].ep /\ D1[c].nextID = D[c].nextID /\ D1[c].event
      /\ D1[c].entry[k] = [owner |-> 0, seq |-> Len(W[c]) + 1, val |-> v, has |-> TRUE]
      /\ \A j \in Key : j # k => D1[c].entry[j] = D[c].entry[j]
      /\ D1[c].ep[c].id = 0 /\ D1[c].ep[c].full = D[c].ep[c].full /\ D1[c].ep[c].pid = D[c].ep[c].pid
      /\ D1[c].ep[c].sent = D[c].ep[c].sent /\ D1[c].ep[c].recv = Len(W[c]) + 1
      /\ \A e \in DOMAIN D[c].ep : e # c => D1[c].ep[e] = D[c].ep[e]
  BY <1>2 DEF IsWritten
<1>4. /\ x \in WriteType /\ x.key = k /\ x.val = v
      /\ W \in [Endpoint -> Seq(WriteType)]
  BY DEF Good, Base, WriteType
<1>5. /\ W1 \in [Endpoint -> Seq(WriteType)]
      /\ Len(W1[c]) = Len(W[c]) + 1 /\ W1[c][Len(W[c]) + 1] = x
      /\ \A i \in 1..Len(W[c]) : W1[c][i] = W[c][i]
      /\ \A e \in Endpoint : e # c => W1[e] = W[e]
  <2>2. /\ W1[c] \in Seq(WriteType) /\ Len(W1[c]) = Len(W[c]) + 1
        /\ W1[c][Len(W[c]) + 1] = x
        /\ \A i \in 1..Len(W[c]) : W1[c][i] = W[c][i]
    BY <1>1, <1>4, AppendIs
  <2>3. W1 \in [Endpoint -> Seq(WriteType)]
    BY <1>4, <2>2 DEF Total
  <2>4. QED
    BY <2>2, <2>3
<1>6. \A e \in Endpoint : Grows(W[e], W1[e]) /\ Len(W1[e]) \in Nat /\ Len(W[e]) \in Nat
  <2>1. ASSUME NEW e \in Endpoint PROVE Grows(W[e], W1[e]) /\ Len(W1[e]) \in Nat /\ Len(W[e]) \in Nat
    <3>1. Len(W[e]) \in Nat
      BY <1>4
    <3>2. CASE e = c
      BY <3>1, <3>2, <1>5 DEF Grows
    <3>3. CASE e # c
      BY <3>1, <3>3, <1>5, SameGrows
    <3>4. QED
      BY <3>2, <3>3
  <2>2. QED
    BY <2>1
<1>7. at1[c][c] = Len(W[c]) + 1
  BY <1>1
<1>8. ASSUME NEW n \in Endpoint
      PROVE  /\ DOMAIN D1[n].ep = DOMAIN D[n].ep /\ D1[n].nextID = D[n].nextID /\ IsDb(D1[n])
             /\ \A e \in DOMAIN D[n].ep : /\ D1[n].ep[e].id = D[n].ep[e].id /\ D1[n].ep[e].full = D[n].ep[e].full
                                          /\ D1[n].ep[e].pid = D[n].ep[e].pid /\ D1[n].ep[e].sent = D[n].ep[e].sent
             /\ \A e \in DOMAIN D[n].ep : (n # c \/ e # c) => D1[n].ep[e] = D[n].ep[e]
             /\ \A j \in Key : (n # c \/ j # k) => D1[n].entry[j] = D[n].entry[j]
             /\ D[n].event => D1[n].event
  <2>1. CASE n # c
    BY <2>1, ModuleFacts
  <2>2. CASE n = c
    BY ONLY <2>2, <1>2, <1>3
  <2>3. QED
    BY <2>1, <2>2
<1>13. ASSUME NEW n \in Endpoint PROVE Proc(D1, n) = Proc(D, n)
  BY ModuleFacts, <1>8 DEF Numbered, Proc
<1>9. ASSUME NEW n \in Endpoint, NEW e \in Endpoint
      PROVE  /\ Live(D1, P, n, e) <=> Live(D, P, n, e)
             /\ Forwards(D1, P, n, e) <=> Forwards(D, P, n, e)
  BY <1>13, LiveSame
<1>10. ASSUME NEW n \in Endpoint, NEW e \in Endpoint
       PROVE  Linked(n, e, D1[Source(n, e)]) <=> Linked(n, e, D[Source(n, e)])
  <2> DEFINE p == Source(n, e)
  <2>1. p \in Endpoint
    BY Places
  <2>2. /\ DOMAIN D1[p].ep = DOMAIN D[p].ep
        /\ n \in DOMAIN D[p].ep => D1[p].ep[n].full = D[p].ep[n].full
    BY <2>1, <1>8
  <2> HIDE DEF p
  <2>3. Linked(n, e, D1[p]) <=> Linked(n, e, D[p])
    BY <2>2, LinkedSame
  <2>4. QED
    BY <2>3 DEF p
<1>11. ASSUME NEW n \in Endpoint, NEW e \in Endpoint, P[e] # 0, n # e
       PROVE  \A j \in KeysOf(e) : D1[n].entry[j] = D[n].entry[j]
  <2>1. CASE n # c
    BY <2>1
  <2>2. CASE n = c
    <3>1. KeyFrom(c, k, v) /\ e # c /\ \A m \in Modules : (k = PortsOf[m] /\ c # m) => P[m] = 0
      BY <2>2, <1>11
    <3>2. k \notin KeysOf(e)
      BY ONLY <3>1, <1>11, c \in Endpoint, k \in Key, WrittenKey
    <3>3. QED
      BY <3>2, <1>8 DEF KeysOf
  <2>3. QED
    BY <2>1, <2>2
<1>14. Numbered(D1[c], c, W1[c])
  <2>1. /\ \A e, f \in DOMAIN D[c].ep : D[c].ep[e].id = D[c].ep[f].id => e = f
        /\ \A e \in DOMAIN D[c].ep : D[c].ep[e].id < D[c].nextID /\ D[c].ep[e].sent <= D[c].ep[e].recv
        /\ \A j \in Key : D[c].entry[j].has => D[c].entry[j].owner < D[c].nextID
    BY <1>1 DEF Numbered
  <2>2. /\ \A e \in DOMAIN D[c].ep : D[c].ep[e].recv \in Nat /\ D[c].ep[e].sent \in Nat
        /\ \A j \in Key : D[c].entry[j].seq \in Nat
    BY <1>1, RecordIs
  <2>3. PICK b \in Nat : \A j \in Key : D[c].entry[j].seq <= b
    BY <1>1 DEF Numbered
  <2>4. b + Len(W[c]) + 1 \in Nat /\ \A j \in Key : D1[c].entry[j].seq <= b + Len(W[c]) + 1
    <3>1. b + Len(W[c]) + 1 \in Nat
      BY <2>3, <1>1
    <3>2. ASSUME NEW j \in Key PROVE D1[c].entry[j].seq <= b + Len(W[c]) + 1
      <4>1. CASE j = k
        BY <4>1, <1>3, <2>3, <1>1
      <4>2. CASE j # k
        <5>1. D1[c].entry[j].seq = D[c].entry[j].seq
          BY <4>2, <1>3
        <5>2. D[c].entry[j].seq <= b /\ D[c].entry[j].seq \in Nat
          BY <2>2, <2>3
        <5>3. QED
          BY <5>1, <5>2, <2>3, <1>1
      <4>3. QED
        BY <4>1, <4>2
    <3>3. QED
      BY <3>1, <3>2
  <2>5. \A e \in DOMAIN D1[c].ep : D1[c].ep[e].id < D1[c].nextID /\ D1[c].ep[e].sent <= D1[c].ep[e].recv
    <3>1. ASSUME NEW e \in DOMAIN D[c].ep PROVE D1[c].ep[e].id < D1[c].nextID /\ D1[c].ep[e].sent <= D1[c].ep[e].recv
      <4>1. CASE e # c
        BY <4>1, <2>1, <1>3
      <4>2. CASE e = c
        <5>1. D[c].ep[c].sent <= Len(W[c]) /\ D[c].ep[c].sent \in Nat /\ 0 < D[c].nextID
          BY <1>2, <2>1, <2>2
        <5>2. QED
          BY <5>1, <4>2, <1>1, <1>3
      <4>3. QED
        BY <4>1, <4>2
    <3>2. QED
      BY <3>1, <1>3
  <2>6. \A j \in Key : D1[c].entry[j].has => D1[c].entry[j].owner < D1[c].nextID
    <3>1. 0 < D[c].nextID
      BY <1>2, <2>1
    <3>2. ASSUME NEW j \in Key, D1[c].entry[j].has PROVE D1[c].entry[j].owner < D1[c].nextID
      <4>1. CASE j = k
        BY <4>1, <1>3, <3>1
      <4>2. CASE j # k
        <5>1. D1[c].entry[j] = D[c].entry[j]
          BY <4>2, <1>3
        <5>2. QED
          BY <5>1, <3>2, <2>1, <1>3
      <4>3. QED
        BY <4>1, <4>2
    <3>3. QED
      BY <3>2
  <2>7. \A e, f \in DOMAIN D1[c].ep : D1[c].ep[e].id = D1[c].ep[f].id => e = f
    BY <2>1, <1>3, <1>8
  <2>8. \E h \in Nat : \A j \in Key : D1[c].entry[j].seq <= h
    BY <2>4
  <2>9. c \in DOMAIN D1[c].ep /\ D1[c].ep[c].id = 0 /\ D1[c].ep[c].recv = Len(W1[c])
    BY <1>2, <1>3, <1>5
  <2>10. QED
    BY <2>5, <2>6, <2>7, <2>8, <2>9 DEF Numbered
<1>15. Base(D1, I, P, W1, s)
  <2>1. Base(D, I, P, W, s)
    BY DEF Good
  <2>2. \A n \in Endpoint : IsDb(D1[n]) /\ Numbered(D1[n], n, W1[n])
    <3>1. ASSUME NEW n \in Endpoint, n # c PROVE Numbered(D1[n], n, W1[n])
      <4>1. D1[n] = D[n] /\ W1[n] = W[n]
        BY <3>1, <1>5
      <4>2. Numbered(D[n], n, W[n])
        BY ModuleFacts
      <4>3. QED
        BY <4>1, <4>2
    <3>2. QED
      BY <3>1, <1>8, <1>14
  <2>3. ASSUME NEW n \in Endpoint, NEW e \in DOMAIN D1[n].ep PROVE PidFits(D, n, e, D1[n].ep[e].pid)
    <3>1. e \in DOMAIN D[n].ep /\ D1[n].ep[e].pid = D[n].ep[e].pid
      BY <1>8
    <3>2. PidFits(D, n, e, D[n].ep[e].pid)
      BY <2>1, <3>1 DEF Base, Processes
    <3>3. QED
      BY <3>1, <3>2
  <2>4. /\ I \in [Endpoint -> Seq(Message)]
        /\ \A n \in Endpoint : \A j \in 1..Len(I[n]) : Proper(D, n, I[n][j])
    BY <2>1 DEF Base
  <2>5. QED
    BY <2>1, <2>2, <2>3, <2>4, <1>5, <1>13, BaseStays
<1>16. Marked(I, W1, at1, mk)
  <2>1. /\ mk \in [Endpoint -> Seq(Nat)] /\ \A n \in Endpoint : Len(mk[n]) = Len(I[n])
    BY DEF Good, Marked
  <2>2. ASSUME NEW n \in Endpoint PROVE at1[n][n] = Len(W1[n])
    <3>1. CASE n = c
      BY <3>1, <1>5, <1>7
    <3>2. CASE n # c
      <4>1. at[n][n] = Len(W[n])
        BY ModuleFacts
      <4>2. QED
        BY <4>1, <3>2, <1>5
    <3>3. QED
      BY <3>1, <3>2
  <2>3. QED
    BY <2>1, <2>2 DEF Marked
<1>17. ASSUME NEW n \in Endpoint, NEW e \in DOMAIN D1[n].ep, NEW j \in OwnedBy(D1[n], e), n # c \/ j # k
       PROVE  e \in DOMAIN D[n].ep /\ j \in OwnedBy(D[n], e) /\ D1[n].entry[j] = D[n].entry[j]
  BY <1>8, <1>17 DEF OwnedBy
<1>18. ASSUME NEW e \in DOMAIN D1[c].ep, k \in OwnedBy(D1[c], e) PROVE e = c
  <2>1. D1[c].ep[e].id = 0 /\ e \in DOMAIN D[c].ep
    BY <1>3, <1>18 DEF OwnedBy
  <2>2. D[c].ep[e].id = 0
    BY <2>1, <1>8
  <2>3. QED
    BY <2>1, <2>2, <1>1, <1>2 DEF Numbered
<1>19. Keys(D1, I, W1)
  <2>1. Keys(D, I, W)
    BY DEF Good
  <2>2. ASSUME NEW e \in Endpoint, NEW i \in 1..Len(W1[e]) PROVE KeyFrom(e, W1[e][i].key, W1[e][i].val)
    <3>1. CASE e # c
      BY <3>1, <2>1, <1>5 DEF Keys
    <3>2. CASE e = c /\ i \in 1..Len(W[c])
      BY <3>2, <2>1, <1>5 DEF Keys
    <3>3. CASE e = c /\ i = Len(W[c]) + 1
      BY <3>3, <1>4, <1>5
    <3>4. QED
      BY <3>1, <3>2, <3>3, <1>1, <1>5
  <2>3. ASSUME NEW n \in Endpoint, NEW e \in DOMAIN D1[n].ep, NEW j \in OwnedBy(D1[n], e)
        PROVE  KeyFrom(e, j, D1[n].entry[j].val) /\ (n # e => WriterOf[j] # n)
    <3>1. CASE n # c \/ j # k
      <4>1. e \in DOMAIN D[n].ep /\ j \in OwnedBy(D[n], e) /\ D1[n].entry[j] = D[n].entry[j]
        BY <3>1, <1>17
      <4>2. QED
        BY <4>1, <2>1 DEF Keys
    <3>2. CASE n = c /\ j = k
      BY <3>2, <2>3, <1>18, <1>3
    <3>3. QED
      BY <3>1, <3>2
  <2>4. QED
    BY <2>1, <2>2, <2>3 DEF Keys
<1>26. OneMore(c, D[c], D1[c], W[c], W1[c], k, v)
  <2>1. D[c].ep[c].sent <= Len(W[c]) /\ D[c].ep[c].sent \in Nat
    BY <1>1, <1>2, RecordIs DEF Numbered
  <2>2. QED
    BY <2>1, <1>1, <1>2, <1>3, <1>4, <1>5 DEF OneMore
<1>20. c \in Endpoint /\ \A e \in Endpoint : KeysOf(e) \subseteq Key
  BY DEF KeysOf
<1>21. Copying(D1, P, W1, at1)
  <2>1. SUFFICES ASSUME NEW n \in Endpoint, NEW e \in Endpoint, Live(D, P, n, e)
                 PROVE  Copy(e, D1[n], at1[n][e], W1[e], Proc(D, e))
    BY <1>9, <1>13 DEF Copying
  <2>2. CASE n = c /\ e = c
    <3>1. Copy(c, D[c], at[c][c], W[c], Proc(D, c))
      BY <2>1, <2>2, <1>1, LiveIs
    <3>3. Copy(c, D1[c], at1[c][c], W1[c], Proc(D, c))
      BY <3>1, <1>1, <1>26, OwnCopy
    <3>4. QED
      BY <3>3, <2>2, <1>7
  <2>3. CASE n # c \/ e # c
    <3>1. \A j \in KeysOf(e) : D1[n].entry[j] = D[n].entry[j]
      BY <2>1, <2>3, <1>11 DEF Live
    <3>2. /\ e \in DOMAIN D1[n].ep <=> e \in DOMAIN D[n].ep
          /\ e \in DOMAIN D[n].ep => D1[n].ep[e] = D[n].ep[e]
      BY <2>3, <1>8
    <3>3. Grows(W[e], W1[e]) /\ Len(W1[e]) \in Nat
      BY <1>6
    <3>4. Copy(e, D1[n], at[n][e], W1[e], Proc(D, e))
      BY <2>1, <3>1, <3>2, <3>3, CopyStays
    <3>5. QED
      BY <3>4, <2>3
  <2>4. QED
    BY <2>2, <2>3
<1>22. Owning(D1, P, W1, at1)
  <2>1. SUFFICES ASSUME NEW p \in Endpoint, NEW e \in Endpoint, Forwards(D, P, p, e)
                 PROVE  Owned(e, D1[p], at1[p][e], W1[e])
    BY <1>9 DEF Owning
  <2>2. CASE p = c /\ e = c
    <3>1. Owned(c, D[c], at[c][c], W[c])
      BY <2>1, <2>2, <1>1 DEF Good, Owning
    <3>2. Owned(c, D1[c], at1[c][c], W1[c])
      BY ONLY <3>1, <1>1, <1>26, at1[c][c] = at[c][c] + 1, OwnOwned
    <3>3. QED
      BY <3>2, <2>2, <1>7
  <2>3. CASE p # c \/ e # c
    <3>1. ASSUME e \in DOMAIN D1[p].ep, NEW j \in OwnedBy(D1[p], e)
          PROVE  j \in OwnedBy(D[p], e) /\ D1[p].entry[j] = D[p].entry[j]
      <4>1. p # c \/ j # k
        BY <3>1, <2>3, <1>18
      <4>2. QED
        BY <3>1, <4>1, <1>17
    <3>2. e \in DOMAIN D1[p].ep => e \in DOMAIN D[p].ep
      BY <1>8
    <3>3. Grows(W[e], W1[e])
      BY <1>6
    <3>4. Owned(e, D1[p], at[p][e], W1[e])
      BY ONLY Good(D, I, P, W, s, at, mk), <2>1, <3>1, <3>2, <3>3, OwnedStays
    <3>5. QED
      BY <3>4, <2>3
  <2>4. QED
    BY <2>2, <2>3
<1>23. \A p, e \in Endpoint : at1[p][e] \in Nat /\ at[p][e] \in Nat /\ at[p][e] <= at1[p][e]
  <2>1. ASSUME NEW p \in Endpoint, NEW e \in Endpoint PROVE at1[p][e] \in Nat /\ at[p][e] \in Nat /\ at[p][e] <= at1[p][e]
    <3>1. at[p][e] \in Nat
      BY PairFacts
    <3>2. CASE p = c /\ e = c
      BY <3>1, <3>2, <1>1, <1>7
    <3>3. CASE p # c \/ e # c
      BY <3>1, <3>3
    <3>4. QED
      BY <3>2, <3>3
  <2>2. QED
    BY <2>1
<1>24. Flowing(D1, I, P, W1, at1, mk)
  <2>1. SUFFICES ASSUME NEW n \in Endpoint, NEW e \in Endpoint, n # e, Live(D, P, n, e)
                 PROVE  Flow(n, e, I[n], mk[n], D1[n], at1[n][e], W1[e], Proc(D, e), at1[Source(n, e)][e])
    BY <1>9, <1>13 DEF Flowing
  <2>2. Softer(e, D[n], D1[n])
    BY <2>1, <1>11 DEF Live, Softer
  <2>3. at1[n][e] = at[n][e] /\ Source(n, e) \in Endpoint
    <3>1. n # c \/ e # c
      BY <2>1
    <3>2. Source(n, e) \in Endpoint
      BY Places
    <3>3. QED
      BY <3>1, <3>2
  <2>4. at1[Source(n, e)][e] \in Nat /\ at[Source(n, e)][e] <= at1[Source(n, e)][e]
    BY <2>3, <1>23
  <2>5. Grows(W[e], W1[e])
    BY <1>6
  <2>6. Flow(n, e, I[n], mk[n], D1[n], at[n][e], W1[e], Proc(D, e), at1[Source(n, e)][e])
    BY <2>1, <2>2, <2>4, <2>5, FlowStays
  <2>7. QED
    BY <2>3, <2>6
<1>25. Sending(D1, I, P, W1, at1, mk)
  <2>1. SUFFICES ASSUME NEW n \in Endpoint, NEW e \in Endpoint, n # e, Live(D, P, n, e),
                        Linked(n, e, D[Source(n, e)])
                 PROVE  Sent(n, e, I[n], mk[n], D1[n], at1[n][e], W1[e], Proc(D, e), D1[Source(n, e)], at1[Source(n, e)][e])
    BY <1>9, <1>10, <1>13 DEF Sending
  <2>2. Softer(e, D[n], D1[n])
    BY <2>1, <1>11 DEF Live, Softer
  <2>3. at1[n][e] = at[n][e] /\ Source(n, e) \in Endpoint
    <3>1. n # c \/ e # c
      BY <2>1
    <3>2. Source(n, e) \in Endpoint
      BY Places
    <3>3. QED
      BY <3>1, <3>2
  <2>4. Grows(W[e], W1[e])
    BY <1>6
  <2>5. CASE Source(n, e) = c /\ e = c
    <3>1. Sent(n, c, I[n], mk[n], D1[n], at[n][c], W[c], Proc(D, c), D[c], at[c][c])
      <4>1. \A j \in KeysOf(e), i \in 1..at[Source(n, e)][e] :
               Pending(D[Source(n, e)], e, j, i) => Pending(D[Source(n, e)], e, j, i)
        OBVIOUS
      <4>2. Grows(W[e], W[e])
        BY <1>6, SameGrows
      <4>3. Sent(n, e, I[n], mk[n], D1[n], at[n][e], W[e], Proc(D, e), D[Source(n, e)], at[Source(n, e)][e])
        BY <2>1, <2>2, <4>1, <4>2, SentStays
      <4>4. QED
        BY <4>3, <2>5, <1>1
    <3>2. Sent(n, c, I[n], mk[n], D1[n], at[n][c], W1[c], Proc(D, c), D1[c], at1[c][c])
      <4>1. SUFFICES ASSUME NEW q, q = I[n], NEW h, h = mk[n], NEW d, d = D1[n], NEW a, a = at[n][c],
                            NEW b, b = at[c][c], NEW b1, b1 = at1[c][c], NEW r, r = Proc(D, c)
                     PROVE  Sent(n, c, q, h, d, a, W1[c], r, D1[c], b1)
        OBVIOUS
      <4>2. Sent(n, c, q, h, d, a, W[c], r, D[c], b) /\ b = Len(W[c]) /\ b1 = b + 1
        BY <3>1, <4>1, <1>1
      <4>3. QED
        BY <4>2, <1>26, OwnSent
    <3>3. QED
      BY <3>2, <2>3, <2>5
  <2>6. CASE Source(n, e) # c \/ e # c
    <3> DEFINE p == Source(n, e)
    <3>1. p \in Endpoint /\ (p # c \/ e # c)
      BY <2>3, <2>6
    <3> HIDE DEF p
    <3>2. ASSUME NEW j \in KeysOf(e), NEW i \in 1..at[p][e], Pending(D[p], e, j, i)
          PROVE  Pending(D1[p], e, j, i)
      <4>1. /\ D[p].event /\ e \in DOMAIN D[p].ep /\ j \in Key
            /\ D[p].entry[j].has /\ D[p].entry[j].owner = D[p].ep[e].id
            /\ D[p].entry[j].seq = i /\ i > D[p].ep[e].sent
        BY <3>2 DEF Pending, OwnedBy
      <4>2. D1[p].entry[j] = D[p].entry[j]
        BY <3>1, <2>1, <1>11, Zenon DEF Live
      <4>3. /\ DOMAIN D1[p].ep = DOMAIN D[p].ep /\ D1[p].ep[e] = D[p].ep[e]
            /\ D1[p].event
        BY ONLY <3>1, <4>1, <1>8
      <4>4. QED
        BY <4>1, <4>2, <4>3 DEF Pending, OwnedBy
    <3>3. Sent(n, e, I[n], mk[n], D1[n], at[n][e], W1[e], Proc(D, e), D1[p], at[p][e])
      BY <2>1, <2>2, <2>4, <3>2, SentStays DEF p
    <3>4. at1[p][e] = at[p][e]
      BY <3>1
    <3>5. QED
      BY <3>3, <3>4, <2>3 DEF p
  <2>7. QED
    BY <2>5, <2>6
<1>27. Starting(D1, I, P, at1)
  <2>1. SUFFICES ASSUME NEW n \in Endpoint, NEW e \in Endpoint, n # e, P[n] # 0, ~Linked(n, e, D[Source(n, e)])
                 PROVE  Nothing(e, I[n], D1[n], at1[n][e])
    BY <1>10 DEF Starting
  <2>2. \A j \in KeysOf(e) : D1[n].entry[j] = D[n].entry[j]
    <3>1. CASE n # c
      BY <3>1
    <3>2. CASE n = c
      BY <2>1, <3>2, KeyIs, Places, <1>3, <1>20 DEF Direct, Linked
    <3>3. QED
      BY <3>1, <3>2
  <2>3. Nothing(e, I[n], D1[n], at[n][e])
    <3>1. Softer(e, D[n], D1[n])
      BY <2>2 DEF Softer
    <3>2. QED
      BY <2>1, <3>1, NothingStays, Zenon
  <2>4. at1[n][e] = at[n][e]
    BY <2>1
  <2>5. QED
    BY <2>3, <2>4
<1>28. Clearing(D1, I, P, W1, at1)
  <2>1. SUFFICES ASSUME NEW m \in Modules, P[m] # 0
                 PROVE  /\ Uncleared(D1, at1, W1, m)
                        /\ \A n \in Endpoint : (n # m /\ n # CentralOf(m) /\ Live(D1, P, n, m)) =>
                              ClearedFirst(n, m, I[n], at1[n][m], W1[m], Proc(D1, m))
                        /\ Proc(D1, m) = 1 => NeverCleared(D1, I, m)
    BY DEF Clearing
  <2> DEFINE b == CentralOf(m)
             f == PortsOf[m]
  <2>2. m \in Endpoint /\ b \in Endpoint /\ m # b /\ IsCentral(b) /\ P[b] # 0 /\ f \in Key /\ Local(b, m)
    <3>1. m \in Endpoint /\ ~IsCentral(m)
      BY DEF Modules
    <3>2. b \in Endpoint /\ IsCentral(b) /\ Local(b, m)
      BY <3>1, Places
    <3>3. P[b] # 0
      BY <3>2, CentralsRun DEF Good
    <3>4. f \in Key
      BY MnemosynthAssumption
    <3>5. QED
      BY <3>1, <3>2, <3>3, <3>4
  <2>3. /\ Uncleared(D, at, W, m)
        /\ \A n \in Endpoint : (n # m /\ n # b /\ Live(D, P, n, m)) =>
              ClearedFirst(n, m, I[n], at[n][m], W[m], Proc(D, m))
        /\ Proc(D, m) = 1 => NeverCleared(D, I, m)
    BY <2>1 DEF Good, Clearing
  <2>4. Live(D, P, b, m) /\ at[b][m] <= Len(W[m]) /\ at[b][m] \in Nat
    BY <2>1, <2>2, LiveIs, PairFacts DEF Live
  <2>5. f = k => m = c
    BY <2>1, <2>2, WrittenKey
  <2> HIDE DEF b, f
  <2>6. ASSUME NEW n \in Endpoint, b \in DOMAIN D1[n].ep, f \in OwnedBy(D1[n], b)
        PROVE  b \in DOMAIN D[n].ep /\ f \in OwnedBy(D[n], b)
    BY <2>6, <1>17, <2>2, <2>5, <1>18
  <2>7. Uncleared(D1, at1, W1, m)
    <3>1. ASSUME f \in OwnedBy(D1[b], b)
          PROVE  /\ \A i \in 1..at1[b][m] : W1[m][i].key # f
                 /\ m \in DOMAIN D1[b].ep => D1[b].ep[m].full
      <4>1. b \in DOMAIN D1[b].ep
        BY <2>2, <1>8, ModuleFacts DEF Numbered
      <4>2. f \in OwnedBy(D[b], b)
        BY <2>2, <2>6, <3>1, <4>1
      <4>3. /\ \A i \in 1..at[b][m] : W[m][i].key # f
            /\ m \in DOMAIN D[b].ep => D[b].ep[m].full
        BY <2>3, <4>2 DEF Uncleared, b, f
      <4>4. at1[b][m] = at[b][m]
        BY <2>2
      <4>5. \A i \in 1..at[b][m] : W1[m][i] = W[m][i]
        BY <2>2, <2>4, <1>6 DEF Grows
      <4>6. m \in DOMAIN D1[b].ep => D1[b].ep[m].full = D[b].ep[m].full /\ m \in DOMAIN D[b].ep
        BY <2>2, <1>8
      <4>7. QED
        BY <4>3, <4>4, <4>5, <4>6
    <3>2. QED
      BY <3>1 DEF Uncleared, b, f
  <2>8. ASSUME NEW n \in Endpoint, n # m, n # b, Live(D, P, n, m)
        PROVE  ClearedFirst(n, m, I[n], at1[n][m], W1[m], Proc(D, m))
    <3>1. ClearedFirst(n, m, I[n], at[n][m], W[m], Proc(D, m))
      BY <2>3, <2>8
    <3>2. at1[n][m] = at[n][m] /\ at[n][m] \in Nat /\ at[n][m] <= Len(W[m])
      BY <2>8, <2>2, LiveIs, PairFacts
    <3>3. \A i \in 1..at[n][m] : W1[m][i] = W[m][i]
      <4>1. Grows(W[m], W1[m]) /\ Len(W[m]) \in Nat
        BY <2>2, <1>6
      <4>2. \A i \in 1..at[n][m] : i \in 1..Len(W[m])
        BY <3>2, <4>1
      <4>3. QED
        BY <4>1, <4>2 DEF Grows
    <3>4. \A i : IsLast(W1[m], at[n][m], PortsOf[m], i) <=> IsLast(W[m], at[n][m], PortsOf[m], i)
      BY <2>2, <3>2, <1>6, LastGrows
    <3>5. QED
      BY <3>1, <3>2, <3>3, <3>4, Zenon DEF ClearedFirst
  <2>9. Proc(D, m) = 1 => NeverCleared(D1, I, m)
    BY <2>3, <2>6 DEF NeverCleared, b, f
  <2>10. Proc(D1, m) = Proc(D, m) /\ \A n \in Endpoint : Live(D1, P, n, m) <=> Live(D, P, n, m)
    BY <2>2, <1>9, <1>13
  <2>11. QED
    BY <2>7, <2>8, <2>9, <2>10 DEF b
<1>29. Notified(D1)
  <2>1. ASSUME NEW b \in Endpoint, NEW n \in Endpoint, IsCentral(b), n \in DOMAIN D1[b].ep, n # b, D1[b].ep[n].full
        PROVE  D1[b].event
    <3>1. n \in DOMAIN D[b].ep /\ D[b].ep[n].full
      BY <2>1, <1>8
    <3>2. D[b].event
      BY <2>1, <3>1 DEF Good, Notified
    <3>3. QED
      BY <3>2, <1>8
  <2>2. QED
    BY <2>1 DEF Notified
<1>30. QED
  BY <1>15, <1>16, <1>19, <1>21, <1>22, <1>24, <1>25, <1>27, <1>28, <1>29 DEF Good

-----------------------------------------------------------------------------
(* A central module comes to know another module.                          *)

IsAdded(d1, c, d, e, p) ==
    /\ IsDb(d1) /\ d1.entry = d.entry /\ d1.event
    /\ DOMAIN d1.ep = DOMAIN d.ep \cup {e}
    /\ \A f \in DOMAIN d.ep : d1.ep[f] = d.ep[f]
    /\ e \in DOMAIN d.ep => d1.nextID = d.nextID
    /\ e \notin DOMAIN d.ep => d1.ep[e] = AddedAs(c, e, p, d.nextID) /\ d1.nextID = d.nextID + 1

Meets(D, P, c, e, p, D1) ==
    /\ c \in Endpoint /\ IsCentral(c) /\ e \in Endpoint /\ e # c /\ p \in Nat
    /\ Local(c, e) => p = P[e] /\ P[e] # 0
    /\ Total(D1) /\ IsAdded(D1[c], c, D[c], e, p) /\ \A n \in Endpoint : n # c => D1[n] = D[n]

LEMMA AddKeeps ==
    ASSUME NEW D, NEW I, NEW P, NEW W, NEW s, NEW at, NEW mk, Good(D, I, P, W, s, at, mk),
           NEW c, NEW e, NEW p, NEW D1, Meets(D, P, c, e, p, D1)
    PROVE  Good(D1, I, P, W, s, at, mk)
<1> SUFFICES
      ASSUME c \in Endpoint, IsCentral(c), e \in Endpoint, e # c, p \in Nat,
             Local(c, e) => p = P[e] /\ P[e] # 0,
             Total(D1), \A n \in Endpoint : n # c => D1[n] = D[n], IsAdded(D1[c], c, D[c], e, p)
      PROVE  Good(D1, I, P, W, s, at, mk)
  BY Zenon DEF Meets
<1>1. /\ IsDb(D[c]) /\ Numbered(D[c], c, W[c]) /\ c \in DOMAIN D[c].ep
      /\ \A f \in DOMAIN D[c].ep : D[c].ep[f].id < D[c].nextID /\ D[c].ep[f].id \in Nat
      /\ \A j \in Key : D[c].entry[j].has => D[c].entry[j].owner < D[c].nextID
      /\ D[c].nextID \in Nat
  <2>1. IsDb(D[c]) /\ Numbered(D[c], c, W[c])
    BY ModuleFacts
  <2>2. c \in DOMAIN D[c].ep /\ (\A f \in DOMAIN D[c].ep : D[c].ep[f].id < D[c].nextID)
        /\ \A j \in Key : D[c].entry[j].has => D[c].entry[j].owner < D[c].nextID
    BY <2>1 DEF Numbered
  <2>3. D[c].nextID \in Nat /\ \A f \in DOMAIN D[c].ep : D[c].ep[f].id \in Nat
    BY <2>1, RecordIs
  <2>4. QED
    BY <2>1, <2>2, <2>3
<1>2. /\ IsDb(D1[c]) /\ D1[c].entry = D[c].entry /\ D1[c].event
      /\ DOMAIN D1[c].ep = DOMAIN D[c].ep \cup {e}
      /\ \A f \in DOMAIN D[c].ep : D1[c].ep[f] = D[c].ep[f]
      /\ e \in DOMAIN D[c].ep => D1[c].nextID = D[c].nextID
      /\ e \notin DOMAIN D[c].ep =>
            /\ D1[c].ep[e].id = D[c].nextID /\ D1[c].ep[e].recv = 0 /\ D1[c].ep[e].sent = 0
            /\ D1[c].ep[e].full /\ D1[c].ep[e].pid = IF Local(c, e) THEN p ELSE 0
            /\ D1[c].nextID = D[c].nextID + 1
  BY DEF IsAdded, AddedAs
<1>3. ASSUME NEW n \in Endpoint
      PROVE  /\ DOMAIN D[n].ep \subseteq DOMAIN D1[n].ep /\ IsDb(D1[n])
             /\ \A f \in DOMAIN D[n].ep : D1[n].ep[f] = D[n].ep[f]
             /\ D1[n].entry = D[n].entry
             /\ D[n].event => D1[n].event
             /\ \A f \in DOMAIN D1[n].ep : f \notin DOMAIN D[n].ep =>
                   n = c /\ f = e /\ D1[n].ep[f].full /\ D1[n].ep[f].recv = 0 /\ OwnedBy(D1[n], f) = {}
  <2>1. CASE n # c
    BY <2>1, ModuleFacts
  <2>2. CASE n = c
    BY <1>1, <1>2, <2>2 DEF OwnedBy
  <2>3. QED
    BY <2>1, <2>2
<1>4. ASSUME NEW n \in Endpoint PROVE Proc(D1, n) = Proc(D, n)
  BY ModuleFacts, <1>3 DEF Numbered, Proc
<1>5. ASSUME NEW n \in Endpoint, NEW f \in Endpoint
      PROVE  /\ Live(D1, P, n, f) <=> Live(D, P, n, f)
             /\ Forwards(D1, P, n, f) <=> Forwards(D, P, n, f)
  BY <1>4, LiveSame
<1>6. ASSUME NEW n \in Endpoint, NEW f \in Endpoint
      PROVE  Linked(n, f, D1[Source(n, f)]) <=> Linked(n, f, D[Source(n, f)])
  <2> DEFINE q == Source(n, f)
  <2>1. q \in Endpoint
    BY Places
  <2> HIDE DEF q
  <2>2. n \in DOMAIN D[q].ep => n \in DOMAIN D1[q].ep /\ D1[q].ep[n] = D[q].ep[n]
    BY <2>1, <1>3
  <2>3. (n \in DOMAIN D1[q].ep /\ n \notin DOMAIN D[q].ep) => D1[q].ep[n].full
    BY <2>1, <1>3
  <2>4. Linked(n, f, D1[q]) <=> Linked(n, f, D[q])
    BY <2>2, <2>3 DEF Linked
  <2>5. QED
    BY <2>4 DEF q
<1>7. ASSUME NEW n \in Endpoint, NEW f \in DOMAIN D1[n].ep, NEW j \in OwnedBy(D1[n], f)
      PROVE  f \in DOMAIN D[n].ep /\ j \in OwnedBy(D[n], f) /\ D1[n].entry[j] = D[n].entry[j]
  BY <1>3, <1>7 DEF OwnedBy
<1>8. ASSUME NEW n \in Endpoint, NEW f \in Endpoint
      PROVE  Softer(f, D[n], D1[n])
  BY <1>3 DEF Softer
<1>9. Numbered(D1[c], c, W[c])
  <2>1. CASE e \in DOMAIN D[c].ep
    BY <2>1, <1>1, <1>2 DEF Numbered
  <2>2. CASE e \notin DOMAIN D[c].ep
    <3>1. c \in DOMAIN D1[c].ep /\ D1[c].ep[c].id = 0 /\ D1[c].ep[c].recv = Len(W[c])
      BY <1>1, <1>2 DEF Numbered
    <3>2. ASSUME NEW f \in DOMAIN D1[c].ep, NEW g \in DOMAIN D1[c].ep, D1[c].ep[f].id = D1[c].ep[g].id PROVE f = g
      BY <3>2, <1>1, <1>2, <2>2 DEF Numbered
    <3>3. ASSUME NEW f \in DOMAIN D1[c].ep PROVE D1[c].ep[f].id < D1[c].nextID /\ D1[c].ep[f].sent <= D1[c].ep[f].recv
      BY <2>2, <1>1, <1>2 DEF Numbered
    <3>4. ASSUME NEW j \in Key, D1[c].entry[j].has PROVE D1[c].entry[j].owner < D1[c].nextID
      BY <3>4, <1>1, <1>2, RecordIs, <2>2 DEF NullID
    <3>5. \E b \in Nat : \A j \in Key : D1[c].entry[j].seq <= b
      BY <1>1, <1>2 DEF Numbered
    <3>6. QED
      BY <3>1, <3>2, <3>3, <3>4, <3>5 DEF Numbered
  <2>3. QED
    BY <2>1, <2>2
<1>10. Base(D1, I, P, W, s)
  <2>1. Base(D, I, P, W, s)
    BY DEF Good
  <2>2. \A n \in Endpoint : IsDb(D1[n]) /\ Numbered(D1[n], n, W[n])
    BY ModuleFacts, <1>3, <1>9
  <2>3. ASSUME NEW n \in Endpoint, NEW f \in DOMAIN D1[n].ep PROVE PidFits(D, n, f, D1[n].ep[f].pid)
    <3>1. CASE f \in DOMAIN D[n].ep
      BY <3>1, <1>3, <2>1 DEF Base, Processes
    <3>2. CASE f \notin DOMAIN D[n].ep
      BY <3>2, <1>3, <1>2, ModuleFacts DEF PidFits, Direct
    <3>3. QED
      BY <3>1, <3>2
  <2>4. /\ I \in [Endpoint -> Seq(Message)] /\ W \in [Endpoint -> Seq(WriteType)]
        /\ \A n \in Endpoint : \A j \in 1..Len(I[n]) : Proper(D, n, I[n][j])
    BY <2>1 DEF Base
  <2>5. QED
    BY <2>1, <2>2, <2>3, <2>4, <1>4, BaseStays
<1>11. Marked(I, W, at, mk)
  BY DEF Good
<1>12. Keys(D1, I, W)
  BY <1>7 DEF Good, Keys
<1>13. \A n \in Endpoint : Len(W[n]) \in Nat /\ Grows(W[n], W[n])
  BY ModuleFacts, SameGrows
<1>14. Copying(D1, P, W, at)
  <2>1. SUFFICES ASSUME NEW n \in Endpoint, NEW f \in Endpoint, Live(D, P, n, f)
                 PROVE  Copy(f, D1[n], at[n][f], W[f], Proc(D, f))
    BY <1>4, <1>5 DEF Copying
  <2>2. CASE f \in DOMAIN D1[n].ep => f \in DOMAIN D[n].ep
    <3>1. /\ f \in DOMAIN D1[n].ep <=> f \in DOMAIN D[n].ep
          /\ f \in DOMAIN D[n].ep => D1[n].ep[f] = D[n].ep[f]
          /\ \A k \in KeysOf(f) : D1[n].entry[k] = D[n].entry[k]
      BY <2>2, <1>3
    <3>2. QED
      BY <2>1, <3>1, <1>13, CopyStays
  <2>3. CASE f \in DOMAIN D1[n].ep /\ f \notin DOMAIN D[n].ep
    <3>1. D1[n].ep[f].recv = 0 /\ D1[n].entry = D[n].entry
      BY <2>3, <1>3
    <3>2. Copy(f, D[n], at[n][f], W[f], Proc(D, f)) /\ at[n][f] \in Nat
      BY <2>1, LiveIs, PairFacts
    <3>3. at[n][f] = 0
      BY <3>2, <2>3 DEF Copy
    <3>4. QED
      BY <3>1, <3>2, <3>3, <2>3 DEF Copy
  <2>4. QED
    BY <2>2, <2>3
<1>15. Owning(D1, P, W, at)
  <2>1. SUFFICES ASSUME NEW n \in Endpoint, NEW f \in Endpoint, Forwards(D, P, n, f)
                 PROVE  Owned(f, D1[n], at[n][f], W[f])
    BY <1>5 DEF Owning
  <2>2. CASE f \in DOMAIN D[n].ep
    <3>1. \A j \in OwnedBy(D1[n], f) : j \in OwnedBy(D[n], f) /\ D1[n].entry[j] = D[n].entry[j]
      BY <1>3, <1>7, <2>2
    <3>2. QED
      BY <2>1, <2>2, <3>1, <1>13, OwnedStays
  <2>3. CASE f \notin DOMAIN D[n].ep
    BY <2>3, <1>7 DEF Owned
  <2>4. QED
    BY <2>2, <2>3
<1>16. \A n, f \in Endpoint : at[Source(n, f)][f] \in Nat /\ at[Source(n, f)][f] <= at[Source(n, f)][f]
  BY PairFacts
<1>17. Flowing(D1, I, P, W, at, mk)
  <2>1. SUFFICES ASSUME NEW n \in Endpoint, NEW f \in Endpoint, n # f, Live(D, P, n, f)
                 PROVE  Flow(n, f, I[n], mk[n], D1[n], at[n][f], W[f], Proc(D, f), at[Source(n, f)][f])
    BY <1>4, <1>5 DEF Flowing
  <2>2. QED
    BY <2>1, <1>8, <1>13, <1>16, FlowStays
<1>18. Sending(D1, I, P, W, at, mk)
  <2>1. SUFFICES ASSUME NEW n \in Endpoint, NEW f \in Endpoint, n # f, Live(D, P, n, f),
                        Linked(n, f, D[Source(n, f)])
                 PROVE  Sent(n, f, I[n], mk[n], D1[n], at[n][f], W[f], Proc(D, f), D1[Source(n, f)], at[Source(n, f)][f])
    BY <1>4, <1>5, <1>6 DEF Sending
  <2> DEFINE q == Source(n, f)
  <2>2. q \in Endpoint
    BY Places
  <2> HIDE DEF q
  <2>3. ASSUME NEW k \in KeysOf(f), NEW i \in 1..at[q][f], Pending(D[q], f, k, i)
        PROVE  Pending(D1[q], f, k, i)
    BY <2>3, <2>2, <1>3 DEF Pending, OwnedBy
  <2>4. QED
    BY <2>1, <2>3, <1>8, <1>13, SentStays DEF q
<1>19. Starting(D1, I, P, at)
  BY <1>6, <1>8, NothingStays DEF Starting
<1>20. Clearing(D1, I, P, W, at)
  <2>1. SUFFICES ASSUME NEW m \in Modules, P[m] # 0
                 PROVE  /\ Uncleared(D1, at, W, m)
                        /\ \A n \in Endpoint : (n # m /\ n # CentralOf(m) /\ Live(D1, P, n, m)) =>
                              ClearedFirst(n, m, I[n], at[n][m], W[m], Proc(D1, m))
                        /\ Proc(D1, m) = 1 => NeverCleared(D1, I, m)
    BY DEF Clearing
  <2> DEFINE b == CentralOf(m)
  <2>2. m \in Endpoint /\ b \in Endpoint
    BY Places DEF Modules
  <2>3. /\ Uncleared(D, at, W, m)
        /\ \A n \in Endpoint : (n # m /\ n # b /\ Live(D, P, n, m)) =>
              ClearedFirst(n, m, I[n], at[n][m], W[m], Proc(D, m))
        /\ Proc(D, m) = 1 => NeverCleared(D, I, m)
    BY <2>1 DEF Good, Clearing
  <2> HIDE DEF b
  <2>4. Uncleared(D1, at, W, m)
    <3>1. ASSUME PortsOf[m] \in OwnedBy(D1[b], b)
          PROVE  /\ \A i \in 1..at[b][m] : W[m][i].key # PortsOf[m]
                 /\ m \in DOMAIN D1[b].ep => D1[b].ep[m].full
      <4>1. b \in DOMAIN D1[b].ep
        BY <2>2, <1>3, ModuleFacts DEF Numbered
      <4>2. PortsOf[m] \in OwnedBy(D[b], b)
        BY <2>2, <3>1, <4>1, <1>7
      <4>3. /\ \A i \in 1..at[b][m] : W[m][i].key # PortsOf[m]
            /\ m \in DOMAIN D[b].ep => D[b].ep[m].full
        BY <2>3, <4>2 DEF Uncleared, b
      <4>4. QED
        BY <4>3, <2>2, <1>3
    <3>2. QED
      BY <3>1 DEF Uncleared, b
  <2>5. Proc(D, m) = 1 => NeverCleared(D1, I, m)
    BY <1>7, <2>3 DEF NeverCleared, b
  <2>6. QED
    BY <2>2, <2>3, <2>4, <2>5, <1>4, <1>5 DEF b
<1>21. Notified(D1)
  BY <1>3, <1>2 DEF Good, Notified
<1>22. QED
  BY <1>10, <1>11, <1>12, <1>14, <1>15, <1>17, <1>18, <1>19, <1>20, <1>21 DEF Good

-----------------------------------------------------------------------------
(* Messages without news: others are appended, one is dropped, neighbours  *)
(* change places.                                                          *)

Apart(x, y) ==
    /\ x.type = "update" /\ y.type = "update" /\ x.from # y.from
    /\ \A u \in x.entries, v \in y.entries : u.key # v.key
Adds(q1, m1, q, m) ==
    /\ Follows(q1, q) /\ \A j \in 1..Len(q1) : j > Len(q) => q1[j].type # "update"
    /\ \A j \in 1..Len(q) : m1[j] = m[j]
Drops(q1, m1, q, m) ==
    \E g \in 1..Len(q) : /\ Without(q1, q, g) /\ (q[g].type = "update" => q[g].entries = {})
                         /\ \A j \in 1..Len(q1) : m1[j] = m[Skip(g, j)]
Turns(q1, m1, q, m) ==
    \E g \in 1..Len(q) - 1 : /\ Turned(q1, q, g) /\ Apart(q[g], q[g + 1])
                             /\ \A j \in 1..Len(q) : m1[j] = m[Turn(g, j)]
Harmless(q1, m1, q, m) == Adds(q1, m1, q, m) \/ Drops(q1, m1, q, m) \/ Turns(q1, m1, q, m)

LEMMA ClearedHarmless ==
    ASSUME NEW q, NEW q1, Len(q) \in Nat, Len(q1) \in Nat, NEW m, NEW m1, Harmless(q1, m1, q, m),
           NEW n, NEW e, NEW a, NEW w, NEW r, ClearedFirst(n, e, q, a, w, r)
    PROVE  ClearedFirst(n, e, q1, a, w, r)
<1> DEFINE c == CentralOf(e)
           k == PortsOf[e]
<1>1. CASE Adds(q1, m1, q, m)
  <2>1. ASSUME NEW l \in 1..Len(q1), About(q1[l], c), Mentions(q1[l], k)
        PROVE  /\ \A i \in 1..a : IsLast(w, a, k, i) => w[i].val = Nil
               /\ \A j \in 1..l - 1 : Comes(q1, e, r, j) => ~Mentions(q1[j], k)
    BY <1>1, <2>1 DEF Adds, Follows, About, ClearedFirst, Comes
  <2>2. QED
    BY <2>1 DEF ClearedFirst
<1>2. CASE Drops(q1, m1, q, m)
  <2>1. PICK g \in 1..Len(q) : Without(q1, q, g)
    BY <1>2 DEF Drops
  <2>2. Skips(q1, q, g)
    BY <2>1, SkipIs
  <2>3. /\ \A l \in 1..Len(q1) : Skip(g, l) \in 1..Len(q) /\ q1[l] = q[Skip(g, l)]
        /\ \A l, j \in 1..Len(q1) : l < j <=> Skip(g, l) < Skip(g, j)
    BY <2>2 DEF Skips
  <2>4. ASSUME NEW l \in 1..Len(q1), About(q1[l], c), Mentions(q1[l], k)
        PROVE  /\ \A i \in 1..a : IsLast(w, a, k, i) => w[i].val = Nil
               /\ \A j \in 1..l - 1 : Comes(q1, e, r, j) => ~Mentions(q1[j], k)
    <3>1. /\ \A i \in 1..a : IsLast(w, a, k, i) => w[i].val = Nil
          /\ \A j \in 1..Skip(g, l) - 1 : Comes(q, e, r, j) => ~Mentions(q[j], k)
      BY <2>3, <2>4 DEF ClearedFirst
    <3>2. ASSUME NEW j \in 1..l - 1, Comes(q1, e, r, j) PROVE ~Mentions(q1[j], k)
      <4>1. j \in 1..Len(q1) /\ j < l
        OBVIOUS
      <4>2. Skip(g, j) \in 1..Len(q) /\ q1[j] = q[Skip(g, j)] /\ Skip(g, j) < Skip(g, l) /\ Skip(g, l) \in 1..Len(q)
        BY <4>1, <2>3
      <4>3. Skip(g, j) \in 1..Skip(g, l) - 1
        BY <4>2
      <4>4. Comes(q, e, r, Skip(g, j))
        BY <3>2, <4>2 DEF Comes
      <4>5. QED
        BY <3>1, <4>2, <4>3, <4>4
    <3>3. QED
      BY <3>1, <3>2
  <2>5. QED
    BY <2>4 DEF ClearedFirst
<1>3. CASE Turns(q1, m1, q, m)
  <2>1. PICK g \in 1..Len(q) - 1 : Turned(q1, q, g) /\ Apart(q[g], q[g + 1])
    BY <1>3 DEF Turns
  <2>2. /\ Len(q1) = Len(q)
        /\ \A j \in 1..Len(q) : Turn(g, j) \in 1..Len(q) /\ q1[j] = q[Turn(g, j)]
        /\ \A l, j \in 1..Len(q) : (l < j /\ ~(l = g /\ j = g + 1)) => Turn(g, l) < Turn(g, j)
    BY <2>1, TurnIs
  <2>3. Turn(g, g) = g + 1 /\ Turn(g, g + 1) = g
    BY DEF Turn
  <2>4. ASSUME NEW l \in 1..Len(q1), About(q1[l], c), Mentions(q1[l], k)
        PROVE  /\ \A i \in 1..a : IsLast(w, a, k, i) => w[i].val = Nil
               /\ \A j \in 1..l - 1 : Comes(q1, e, r, j) => ~Mentions(q1[j], k)
    <3>1. /\ \A i \in 1..a : IsLast(w, a, k, i) => w[i].val = Nil
          /\ \A j \in 1..Turn(g, l) - 1 : Comes(q, e, r, j) => ~Mentions(q[j], k)
      BY <2>2, <2>4 DEF ClearedFirst
    <3>2. ASSUME NEW j \in 1..l - 1, Comes(q1, e, r, j), Mentions(q1[j], k) PROVE FALSE
      <4>1. j \in 1..Len(q) /\ j < l /\ l \in 1..Len(q)
        BY <2>2
      <4>2. CASE j = g /\ l = g + 1
        BY <4>1, <4>2, <2>2, <2>3, <2>4, <3>2, <2>1 DEF Mentions, Apart
      <4>3. CASE ~(j = g /\ l = g + 1)
        <5>1. Turn(g, j) \in 1..Len(q) /\ q1[j] = q[Turn(g, j)] /\ Turn(g, j) < Turn(g, l) /\ Turn(g, l) \in 1..Len(q)
          BY <4>1, <4>3, <2>2
        <5>2. Turn(g, j) \in 1..Turn(g, l) - 1
          BY <5>1
        <5>3. Comes(q, e, r, Turn(g, j))
          BY <3>2, <5>1 DEF Comes
        <5>4. QED
          BY <3>1, <3>2, <5>1, <5>2, <5>3
      <4>4. QED
        BY <4>2, <4>3
    <3>3. QED
      BY <3>1, <3>2
  <2>5. QED
    BY <2>4 DEF ClearedFirst
<1>4. QED
  BY <1>1, <1>2, <1>3 DEF Harmless

Olds(q1, q) == \A j \in 1..Len(q1) : q1[j].type = "update" => \E l \in 1..Len(q) : q1[j] = q[l]

LEMMA PairHarmless ==
    ASSUME NEW q, NEW q1, Len(q) \in Nat, Len(q1) \in Nat, NEW m, NEW m1, Harmless(q1, m1, q, m), NEW n, NEW e
    PROVE  /\ \A d, a, w, r, b : Flow(n, e, q, m, d, a, w, r, b) => Flow(n, e, q1, m1, d, a, w, r, b)
           /\ \A d, a, w, r, pd, b : Sent(n, e, q, m, d, a, w, r, pd, b) => Sent(n, e, q1, m1, d, a, w, r, pd, b)
           /\ \A d, a : Nothing(e, q, d, a) => Nothing(e, q1, d, a)
           /\ Olds(q1, q)
<1>1. CASE Adds(q1, m1, q, m)
  BY <1>1, FlowSilent, SentSilent, NothingSilent DEF Adds, Silent, About, Follows, Olds
<1>2. CASE Drops(q1, m1, q, m)
  <2>1. PICK g \in 1..Len(q) : /\ Without(q1, q, g) /\ (q[g].type = "update" => q[g].entries = {})
                               /\ \A j \in 1..Len(q1) : m1[j] = m[Skip(g, j)]
    BY <1>2 DEF Drops
  <2>2. Empty(q[g], e)
    BY <2>1 DEF Empty, About
  <2>3. Olds(q1, q)
    BY <2>1, SkipIs DEF Skips, Olds
  <2>4. QED
    BY <2>1, <2>2, <2>3, FlowWithout, SentWithout, NothingWithout
<1>3. CASE Turns(q1, m1, q, m)
  <2>1. PICK g \in 1..Len(q) - 1 : /\ Turned(q1, q, g) /\ Apart(q[g], q[g + 1])
                                   /\ \A j \in 1..Len(q) : m1[j] = m[Turn(g, j)]
    BY <1>3 DEF Turns
  <2>2. ~(About(q[g], e) /\ About(q[g + 1], e))
    BY <2>1 DEF Apart, About
  <2>3. Olds(q1, q)
    BY <2>1, TurnIs DEF Olds
  <2>4. QED
    BY <2>1, <2>2, <2>3, FlowTurned, SentTurned, NothingTurned
<1>4. QED
  BY <1>1, <1>2, <1>3 DEF Harmless

LEMMA InboxKeeps ==
    ASSUME NEW D, NEW I, NEW P, NEW W, NEW s, NEW at, NEW mk, Good(D, I, P, W, s, at, mk),
           NEW I1, I1 \in [Endpoint -> Seq(Message)], NEW mk1, mk1 \in [Endpoint -> Seq(Nat)],
           \A n \in Endpoint : Len(mk1[n]) = Len(I1[n]) /\ Harmless(I1[n], mk1[n], I[n], mk[n])
    PROVE  Good(D, I1, P, W, s, at, mk1)
<1>1. \A n \in Endpoint : Len(I[n]) \in Nat /\ Len(I1[n]) \in Nat
  BY ModuleFacts
<1>2. \A n \in Endpoint : \A j \in 1..Len(I1[n]) :
         I1[n][j].type = "update" => \E l \in 1..Len(I[n]) : I1[n][j] = I[n][l]
  <2>1. ASSUME NEW n \in Endpoint, NEW j \in 1..Len(I1[n]), I1[n][j].type = "update"
        PROVE  \E l \in 1..Len(I[n]) : I1[n][j] = I[n][l]
    <3>1. Len(I[n]) \in Nat /\ Len(I1[n]) \in Nat /\ Harmless(I1[n], mk1[n], I[n], mk[n])
      BY <1>1
    <3>2. Olds(I1[n], I[n])
      BY <3>1, PairHarmless
    <3>3. QED
      BY <3>2, <2>1 DEF Olds
  <2>2. QED
    BY <2>1, Zenon
<1>3. Base(D, I1, P, W, s)
  <2>1. ASSUME NEW n \in Endpoint, NEW j \in 1..Len(I1[n]) PROVE Proper(D, n, I1[n][j])
    <3>1. CASE I1[n][j].type = "update"
      BY <3>1, <1>2 DEF Good, Base
    <3>2. CASE I1[n][j].type # "update"
      BY <3>2 DEF Proper
    <3>3. QED
      BY <3>1, <3>2
  <2>2. QED
    BY <2>1 DEF Good, Base
<1>4. Marked(I1, W, at, mk1)
  BY DEF Good, Marked
<1>5. Keys(D, I1, W)
  BY <1>2 DEF Good, Keys
<1>6. Flowing(D, I1, P, W, at, mk1)
  <2>1. SUFFICES ASSUME NEW n \in Endpoint, NEW e \in Endpoint, n # e, Live(D, P, n, e)
                 PROVE  Flow(n, e, I1[n], mk1[n], D[n], at[n][e], W[e], Proc(D, e), at[Source(n, e)][e])
    BY DEF Flowing
  <2>2. Flow(n, e, I[n], mk[n], D[n], at[n][e], W[e], Proc(D, e), at[Source(n, e)][e])
    BY <2>1 DEF Good, Flowing
  <2>3. \A d, a, w, r, b : Flow(n, e, I[n], mk[n], d, a, w, r, b) => Flow(n, e, I1[n], mk1[n], d, a, w, r, b)
    BY <1>1, PairHarmless
  <2>4. QED
    BY <2>2, <2>3, Zenon
<1>7. Sending(D, I1, P, W, at, mk1)
  <2>1. SUFFICES ASSUME NEW n \in Endpoint, NEW e \in Endpoint, n # e, Live(D, P, n, e), Linked(n, e, D[Source(n, e)])
                 PROVE  Sent(n, e, I1[n], mk1[n], D[n], at[n][e], W[e], Proc(D, e), D[Source(n, e)], at[Source(n, e)][e])
    BY DEF Sending
  <2>2. Sent(n, e, I[n], mk[n], D[n], at[n][e], W[e], Proc(D, e), D[Source(n, e)], at[Source(n, e)][e])
    BY <2>1 DEF Good, Sending
  <2>3. \A d, a, w, r, pd, b : Sent(n, e, I[n], mk[n], d, a, w, r, pd, b) => Sent(n, e, I1[n], mk1[n], d, a, w, r, pd, b)
    BY <1>1, PairHarmless
  <2>4. QED
    BY <2>2, <2>3, Zenon
<1>8. Starting(D, I1, P, at)
  BY <1>1, PairHarmless DEF Starting, Good
<1>9. Clearing(D, I1, P, W, at)
  <2>1. SUFFICES ASSUME NEW m \in Modules, P[m] # 0
                 PROVE  /\ Uncleared(D, at, W, m)
                        /\ \A n \in Endpoint : (n # m /\ n # CentralOf(m) /\ Live(D, P, n, m)) =>
                              ClearedFirst(n, m, I1[n], at[n][m], W[m], Proc(D, m))
                        /\ Proc(D, m) = 1 => NeverCleared(D, I1, m)
    BY DEF Clearing
  <2>2. /\ Uncleared(D, at, W, m)
        /\ \A n \in Endpoint : (n # m /\ n # CentralOf(m) /\ Live(D, P, n, m)) =>
              ClearedFirst(n, m, I[n], at[n][m], W[m], Proc(D, m))
        /\ Proc(D, m) = 1 => NeverCleared(D, I, m)
    BY <2>1 DEF Good, Clearing
  <2>3. ASSUME NEW n \in Endpoint, ClearedFirst(n, m, I[n], at[n][m], W[m], Proc(D, m))
        PROVE  ClearedFirst(n, m, I1[n], at[n][m], W[m], Proc(D, m))
    BY <2>3, <1>1, ClearedHarmless
  <2>4. NeverCleared(D, I, m) => NeverCleared(D, I1, m)
    <3>1. ASSUME NEW n \in Endpoint, NEW j \in 1..Len(I1[n]), About(I1[n][j], CentralOf(m)), NeverCleared(D, I, m)
          PROVE  ~Mentions(I1[n][j], PortsOf[m])
      <4>1. I1[n][j].type = "update"
        BY <3>1 DEF About
      <4>2. PICK l \in 1..Len(I[n]) : I1[n][j] = I[n][l]
        BY <4>1, <1>2
      <4>3. QED
        BY <4>2, <3>1 DEF NeverCleared
    <3>2. QED
      BY <3>1 DEF NeverCleared
  <2>5. QED
    BY <2>2, <2>3, <2>4
<1>10. QED
  BY <1>3, <1>4, <1>5, <1>6, <1>7, <1>8, <1>9 DEF Good

-----------------------------------------------------------------------------
(* A module takes an update: m, from f, to which its copy d of f was known *)
(* up to old.                                                              *)

Took(n, m, f, d, d1, old) ==
    /\ m.from = f /\ old \in Nat /\ f \in DOMAIN d1.ep
    /\ f \in DOMAIN d.ep => d1.ep[f].id = d.ep[f].id
    /\ \A x \in m.entries : x.key \in Key /\ x.seq \in Nat /\ x.seq <= d1.ep[f].recv
    /\ \A x, y \in m.entries : x.key = y.key => x = y
    /\ \A x \in m.entries : x.seq > old => d1.entry[x.key] = Entered(n, d1.ep[f].id, x)
    /\ \A k \in Key : (\A x \in m.entries : x.key = k => x.seq <= old) => d1.entry[k] = d.entry[k]
    /\ d1.ep[f].recv = old \/ \E x \in m.entries : d1.ep[f].recv = x.seq

LEMMA TookEntry ==
    ASSUME NEW n, NEW m, NEW f, NEW d, NEW d1, NEW old, Took(n, m, f, d, d1, old), NEW k \in Key
    PROVE  \/ d1.entry[k] = d.entry[k] /\ \A x \in m.entries : x.key = k => x.seq <= old
           \/ \E x \in m.entries : x.key = k /\ x.seq > old /\ d1.entry[k] = Entered(n, d1.ep[f].id, x)
<1>1. CASE \A x \in m.entries : x.key = k => x.seq <= old
  BY <1>1 DEF Took
<1>2. CASE \E x \in m.entries : x.key = k /\ ~(x.seq <= old)
  BY <1>2 DEF Took
<1>3. QED
  BY <1>1, <1>2

LEMMA EnteredIs ==
    ASSUME NEW n, NEW id, NEW x
    PROVE  /\ Entered(n, id, x).val = x.val
           /\ (x.val # Nil \/ IsCentral(n)) =>
                 Entered(n, id, x) = [owner |-> id, seq |-> x.seq, val |-> x.val, has |-> TRUE]
           /\ Entered(n, id, x).has => Entered(n, id, x).owner = id /\ Entered(n, id, x).seq = x.seq
BY DEF Entered, NoEntry

(* What the first message of q, which is current, says of e. *)
News(n, e, q, mk, d, a, w, r, b) ==
    /\ Comes(q, e, r, 1) /\ mk[1] \in Nat /\ a \in Nat /\ a <= mk[1] /\ mk[1] <= b
    /\ \A x \in q[1].entries :
          /\ x.seq \in 1..mk[1]
          /\ x.key \in KeysOf(e) => IsLast(w, mk[1], x.key, x.seq) /\ x.val = w[x.seq].val
    /\ \A k \in KeysOf(e), i \in 1..mk[1] : IsLast(w, mk[1], k, i) =>
          \/ i <= a
          \/ \E x \in q[1].entries : x.key = k /\ x.seq = i
          \/ ~Direct(n, e) /\ a = 0 /\ w[i].val = Nil /\ d.entry[k].val = Nil /\ ~Mentions(q[1], k)

LEMMA FirstIsNews ==
    ASSUME NEW n, NEW e, NEW q, NEW mk, NEW d, NEW a \in Nat, NEW w, NEW r, NEW b,
           Flow(n, e, q, mk, d, a, w, r, b), Len(q) \in Nat, Comes(q, e, r, 1), mk[1] \in Nat
    PROVE  News(n, e, q, mk, d, a, w, r, b)
<1>1. 1 \in 1..Len(q)
  BY DEF Comes
<1>2. /\ a <= mk[1] /\ mk[1] <= b
      /\ \A x \in q[1].entries :
            /\ x.seq \in 1..mk[1]
            /\ x.key \in KeysOf(e) => IsLast(w, mk[1], x.key, x.seq) /\ x.val = w[x.seq].val
      /\ \A k \in KeysOf(e), i \in 1..mk[1] :
            IsLast(w, mk[1], k, i) => Covered(n, e, q, mk, d, a, w, r, k, i, 1)
  BY <1>1 DEF Flow, Whole
<1>3. ASSUME NEW k \in KeysOf(e), NEW i \in 1..mk[1], IsLast(w, mk[1], k, i)
      PROVE  \/ i <= a
             \/ \E x \in q[1].entries : x.key = k /\ x.seq = i
             \/ ~Direct(n, e) /\ a = 0 /\ w[i].val = Nil /\ d.entry[k].val = Nil /\ ~Mentions(q[1], k)
  BY <1>2, <1>3 DEF Comes, Covered, Gives, Unheard
<1>4. QED
  BY <1>2, <1>3 DEF News

LEMMA CopyTaken ==
    ASSUME NEW n, NEW e, NEW q, NEW mk, NEW d, NEW a \in Nat, NEW w, NEW r, NEW b \in Nat,
           News(n, e, q, mk, d, a, w, r, b), Copy(e, d, a, w, r), b <= Len(w), Len(w) \in Nat,
           NEW m, m = q[1], NEW d1, NEW old, Took(n, m, e, d, d1, old), old <= a,
           NEW a1, a1 = mk[1]
    PROVE  Copy(e, d1, a1, w, r)
<1>1. /\ a1 \in Nat /\ a <= a1 /\ a1 <= b
      /\ \A x \in m.entries :
            /\ x.seq \in 1..a1
            /\ x.key \in KeysOf(e) => IsLast(w, a1, x.key, x.seq) /\ x.val = w[x.seq].val
      /\ \A k \in KeysOf(e), i \in 1..a1 : IsLast(w, a1, k, i) =>
            \/ i <= a
            \/ \E x \in m.entries : x.key = k /\ x.seq = i
            \/ ~Direct(n, e) /\ a = 0 /\ w[i].val = Nil /\ d.entry[k].val = Nil /\ ~Mentions(m, k)
  BY DEF News
<1>2. old \in Nat /\ e \in DOMAIN d1.ep /\ (e \in DOMAIN d.ep => d1.ep[e].id = d.ep[e].id)
  BY DEF Took
<1>3. a1 <= Len(w)
  BY <1>1
<1>4. d1.ep[e].recv <= a1
  BY <1>1, <1>2 DEF Took
<1>5. ASSUME NEW k \in KeysOf(e), NEW i \in 1..a1, IsLast(w, a1, k, i)
      PROVE  /\ d1.entry[k].val = w[i].val
             /\ w[i].val # Nil => d1.entry[k] = [owner |-> d1.ep[e].id, seq |-> i, val |-> w[i].val, has |-> TRUE]
  <2>1. k \in Key
    BY DEF KeysOf
  <2>2. CASE \E x \in m.entries : x.key = k /\ x.seq > old /\ d1.entry[k] = Entered(n, d1.ep[e].id, x)
    <3>1. PICK x \in m.entries : x.key = k /\ x.seq > old /\ d1.entry[k] = Entered(n, d1.ep[e].id, x)
      BY <2>2
    <3>2. IsLast(w, a1, k, x.seq) /\ x.val = w[x.seq].val
      BY <3>1, <1>1
    <3>3. x.seq = i
      BY <3>2, <1>5, <1>1, LastIsOne
    <3>4. x.val = w[i].val /\ x.seq = i
      BY <3>2, <3>3
    <3>5. /\ d1.entry[k].val = x.val
          /\ x.val # Nil => d1.entry[k] = [owner |-> d1.ep[e].id, seq |-> x.seq, val |-> x.val, has |-> TRUE]
      <4>1. SUFFICES ASSUME NEW id, id = d1.ep[e].id, NEW y, y = d1.entry[k], y = Entered(n, id, x)
                     PROVE  /\ y.val = x.val
                            /\ x.val # Nil => y = [owner |-> id, seq |-> x.seq, val |-> x.val, has |-> TRUE]
        BY <3>1, Zenon
      <4>2. CASE x.val = Nil /\ ~IsCentral(n)
        BY <4>1, <4>2, NoEntryIs DEF Entered
      <4>3. CASE ~(x.val = Nil /\ ~IsCentral(n))
        <5>1. y = [owner |-> id, seq |-> x.seq, val |-> x.val, has |-> TRUE]
          BY <4>1, <4>3, Zenon DEF Entered
        <5>2. y.val = x.val
          BY <5>1
        <5>3. QED
          BY <5>1, <5>2
      <4>4. QED
        BY <4>2, <4>3
    <3>6. QED
      BY <3>4, <3>5
  <2>3. CASE d1.entry[k] = d.entry[k] /\ \A x \in m.entries : x.key = k => x.seq <= old
    <3>1. CASE i <= a
      <4>1. IsLast(w, a, k, i) /\ i \in 1..a
        BY <3>1, <1>1, <1>5, LastBelow DEF IsLast
      <4>2. /\ d.entry[k].val = w[i].val
            /\ w[i].val # Nil => d.entry[k] = [owner |-> d.ep[e].id, seq |-> i, val |-> w[i].val, has |-> TRUE]
        BY <4>1 DEF Copy
      <4>3. e \in DOMAIN d.ep
        BY <4>1 DEF Copy
      <4>4. QED
        BY <4>2, <4>3, <2>3, <1>2
    <3>2. CASE \E x \in m.entries : x.key = k /\ x.seq = i
      BY <3>2, <2>3, <1>2, <3>1
    <3>3. CASE w[i].val = Nil /\ d.entry[k].val = Nil
      BY <3>3, <2>3
    <3>4. QED
      BY <3>1, <3>2, <3>3, <1>1, <1>5
  <2>4. QED
    BY <2>1, <2>2, <2>3, TookEntry
<1>6. ASSUME r = 1, NEW k \in KeysOf(e), \A i \in 1..a1 : w[i].key # k PROVE d1.entry[k].val = Nil
  <2>1. k \in Key
    BY DEF KeysOf
  <2>2. ASSUME NEW x \in m.entries, x.key = k PROVE FALSE
    BY <2>2, <1>1, <1>6 DEF IsLast
  <2>3. d1.entry[k] = d.entry[k]
    BY <2>1, <2>2, TookEntry
  <2>4. \A i \in 1..a : w[i].key # k
    BY <1>1, <1>6
  <2>5. QED
    BY <2>3, <2>4, <1>6 DEF Copy
<1>7. QED
  BY <1>2, <1>3, <1>4, <1>5, <1>6 DEF Copy

(* n's copy advances from a to a1 as the first message is taken. *)
Advance(e, q, mk, d, d1, a, a1, r) ==
    /\ Len(q) \in Nat /\ 1 <= Len(q) /\ About(q[1], e) /\ a \in Nat /\ mk[1] \in Nat
    /\ \/ Comes(q, e, r, 1) /\ a1 = mk[1] /\ a <= a1 /\ \A x \in q[1].entries : x.seq <= a1
       \/ ~Comes(q, e, r, 1) /\ a = 0 /\ a1 = 0
    /\ \A k \in KeysOf(e) : ~Mentions(q[1], k) => d1.entry[k] = d.entry[k]

LEMMA CoveredTaken ==
    ASSUME NEW n, NEW e, NEW q, NEW mk, NEW d, NEW d1, NEW a, NEW a1, NEW r, Advance(e, q, mk, d, d1, a, a1, r),
           NEW q1, NEW mk1, Len(q1) \in Nat, Without(q1, q, 1), \A j \in 1..Len(q1) : mk1[j] = mk[Skip(1, j)],
           NEW w, NEW k \in KeysOf(e), NEW i \in Nat, NEW j \in 0..Len(q1), NEW h, h = j + 1,
           Covered(n, e, q, mk, d, a, w, r, k, i, h)
    PROVE  Covered(n, e, q1, mk1, d1, a1, w, r, k, i, j)
<1>1. /\ Len(q1) = Len(q) - 1 /\ Len(q) \in Nat
      /\ \A l \in 1..Len(q1) : q1[l] = q[l + 1] /\ mk1[l] = mk[l + 1]
  BY DEF Skip, Without, Advance
<1>2. \A l \in 1..j : l \in 1..Len(q1) /\ l + 1 \in 1..h /\ (Comes(q1, e, r, l) <=> Comes(q, e, r, l + 1))
  BY <1>1 DEF Comes
<1>3. a \in Nat /\ a1 \in Nat /\ a <= a1
  BY DEF Advance
<1>4. CASE i <= a
  BY <1>3, <1>4 DEF Covered
<1>5. CASE \E l \in 1..h : Comes(q, e, r, l) /\ Gives(q[l], k, i)
  <2>1. PICK l \in 1..h : Comes(q, e, r, l) /\ Gives(q[l], k, i)
    BY <1>5
  <2>2. CASE l = 1
    BY <2>1, <2>2 DEF Gives, Advance, Covered
  <2>3. CASE l # 1
    <3>1. l - 1 \in 1..j /\ (l - 1) + 1 = l
      BY <2>3
    <3>2. Comes(q1, e, r, l - 1) /\ q1[l - 1] = q[l]
      BY <3>1, <2>1, <1>1, <1>2
    <3>3. QED
      BY <3>1, <3>2, <2>1 DEF Covered
  <2>4. QED
    BY <2>2, <2>3
<1>6. CASE Unheard(n, e, q, mk, d, a, w, r, k, i, h)
  <2>1. 1 \in 1..h /\ About(q[1], e)
    BY DEF Advance
  <2>2. ~Mentions(q[1], k) /\ d1.entry[k] = d.entry[k]
    BY <2>1, <1>6 DEF Unheard, Advance
  <2>3. CASE Comes(q, e, r, 1) /\ i <= mk[1]
    BY <2>1, <2>3, <1>6 DEF Unheard, Advance, Covered
  <2>4. CASE ~Comes(q, e, r, 1) \/ mk[1] = 0
    BY <2>4, <1>1, <1>2, <1>6, <2>2 DEF Advance, Unheard, Covered
  <2>5. QED
    BY <2>1, <2>3, <2>4, <1>6 DEF Unheard
<1>7. QED
  BY <1>4, <1>5, <1>6 DEF Covered

LEMMA FlowTaken ==
    ASSUME NEW n, NEW e, NEW q, NEW mk, NEW d, NEW d1, NEW a, NEW a1, NEW r, Advance(e, q, mk, d, d1, a, a1, r),
           \A j \in 1..Len(q) : mk[j] \in Nat,
           NEW q1, NEW mk1, Len(q1) \in Nat, Without(q1, q, 1), \A j \in 1..Len(q1) : mk1[j] = mk[Skip(1, j)],
           NEW w, NEW b \in Nat, Flow(n, e, q, mk, d, a, w, r, b)
    PROVE  Flow(n, e, q1, mk1, d1, a1, w, r, b) /\ a1 <= b /\ a <= a1 /\ a1 \in Nat
<1>1. /\ Len(q1) = Len(q) - 1 /\ Len(q) \in Nat /\ 1 \in 1..Len(q)
      /\ \A l \in 1..Len(q1) : q1[l] = q[l + 1] /\ mk1[l] = mk[l + 1]
  <2>1. ASSUME NEW l \in 1..Len(q1) PROVE Skip(1, l) = l + 1
    BY DEF Skip
  <2>2. QED
    BY <2>1 DEF Without, Advance
<1>2. \A l \in 1..Len(q1) : l + 1 \in 1..Len(q) /\ (Comes(q1, e, r, l) <=> Comes(q, e, r, l + 1))
                            /\ (About(q1[l], e) <=> About(q[l + 1], e))
  BY <1>1 DEF Comes
<1>3. a \in Nat /\ a1 \in Nat /\ a <= a1 /\ About(q[1], e)
  BY DEF Advance
<1>4. a1 <= b
  BY <1>1 DEF Flow, Whole, Advance
<1>5. ASSUME NEW j \in 1..Len(q1), About(q1[j], e), Comes(q, e, r, 1) PROVE Comes(q1, e, r, j) /\ mk[1] <= mk1[j]
  <2>1. 1 < j + 1 /\ j + 1 \in 1..Len(q) /\ About(q[j + 1], e)
    BY <1>5, <1>2
  <2>2. Comes(q, e, r, j + 1) /\ mk[1] <= mk[j + 1]
    BY <2>1, <1>1, <1>5 DEF Flow, InOrder
  <2>3. QED
    BY <2>2, <1>1, <1>2
<1>6. ASSUME NEW j \in 1..Len(q1), Comes(q1, e, r, j)
      PROVE  /\ a1 <= mk1[j] /\ mk1[j] <= b
             /\ \A x \in q1[j].entries :
                   /\ x.seq \in 1..mk1[j]
                   /\ x.key \in KeysOf(e) => IsLast(w, mk1[j], x.key, x.seq) /\ x.val = w[x.seq].val
             /\ \A k \in KeysOf(e), i \in 1..mk1[j] :
                   IsLast(w, mk1[j], k, i) => Covered(n, e, q1, mk1, d1, a1, w, r, k, i, j)
  <2>1. j + 1 \in 1..Len(q) /\ Comes(q, e, r, j + 1) /\ q1[j] = q[j + 1] /\ mk1[j] = mk[j + 1] /\ mk1[j] \in Nat
    BY <1>1, <1>2, <1>6
  <2>2. /\ a <= mk1[j] /\ mk1[j] <= b
        /\ \A x \in q1[j].entries :
              /\ x.seq \in 1..mk1[j]
              /\ x.key \in KeysOf(e) => IsLast(w, mk1[j], x.key, x.seq) /\ x.val = w[x.seq].val
        /\ \A k \in KeysOf(e), i \in 1..mk1[j] :
              IsLast(w, mk1[j], k, i) => Covered(n, e, q, mk, d, a, w, r, k, i, j + 1)
    BY <2>1 DEF Flow, Whole
  <2>3. a1 <= mk1[j]
    BY <1>6, <1>5, <2>1 DEF Comes, Advance
  <2>4. ASSUME NEW k \in KeysOf(e), NEW i \in 1..mk1[j], IsLast(w, mk1[j], k, i), NEW h, h = j + 1
        PROVE  Covered(n, e, q1, mk1, d1, a1, w, r, k, i, j)
    BY <2>2, <2>4, <2>1, CoveredTaken
  <2>5. QED
    BY <2>2, <2>3, <2>4
<1>7. InOrder(e, q1, mk1, r)
  <2>1. ASSUME NEW l \in 1..Len(q1), NEW j \in 1..Len(q1), l < j, Comes(q1, e, r, l), About(q1[j], e)
        PROVE  Comes(q1, e, r, j) /\ mk1[l] <= mk1[j]
    <3>1. l + 1 < j + 1 /\ l + 1 \in 1..Len(q) /\ j + 1 \in 1..Len(q) /\ Comes(q, e, r, l + 1) /\ About(q[j + 1], e)
      BY <2>1, <1>2
    <3>2. Comes(q, e, r, j + 1) /\ mk[l + 1] <= mk[j + 1]
      BY <3>1 DEF Flow, InOrder
    <3>3. QED
      BY <3>2, <1>1, <1>2
  <2>2. QED
    BY <2>1 DEF InOrder
<1>8. ASSUME a1 > 0, NEW j \in 1..Len(q1), About(q1[j], e) PROVE Comes(q1, e, r, j)
  BY <1>8, <1>3, <1>5 DEF Advance
<1>9. QED
  BY <1>3, <1>4, <1>6, <1>7, <1>8 DEF Flow, Whole

LEMMA SentTaken ==
    ASSUME NEW n, NEW e, NEW q, NEW mk, NEW d, NEW d1, NEW a, NEW a1, NEW r, Advance(e, q, mk, d, d1, a, a1, r),
           NEW q1, NEW mk1, Len(q1) \in Nat, Without(q1, q, 1), \A j \in 1..Len(q1) : mk1[j] = mk[Skip(1, j)],
           NEW w, NEW pd, NEW b \in Nat, Sent(n, e, q, mk, d, a, w, r, pd, b)
    PROVE  Sent(n, e, q1, mk1, d1, a1, w, r, pd, b)
<1>1. Len(q1) \in 0..Len(q1) /\ Len(q) = Len(q1) + 1
  BY DEF Without, Advance
<1>2. ASSUME NEW k \in KeysOf(e), NEW i \in 1..b, IsLast(w, b, k, i)
      PROVE  Covered(n, e, q1, mk1, d1, a1, w, r, k, i, Len(q1)) \/ Pending(pd, e, k, i)
  BY <1>1, CoveredTaken, <1>2 DEF Sent
<1>3. QED
  BY <1>2 DEF Sent

(* The copy of another endpoint, whose ports the update may delete. *)
LEMMA CopyCleared ==
    ASSUME NEW e, NEW d, NEW d1, NEW a \in Nat, NEW w, NEW r, Copy(e, d, a, w, r),
           e \in DOMAIN d1.ep <=> e \in DOMAIN d.ep, e \in DOMAIN d.ep => d1.ep[e] = d.ep[e],
           \A k \in KeysOf(e) : \/ d1.entry[k] = d.entry[k]
                                \/ d1.entry[k].val = Nil /\ \A i \in 1..a : IsLast(w, a, k, i) => w[i].val = Nil
    PROVE  Copy(e, d1, a, w, r)
<1>1. /\ a <= Len(w) /\ (a > 0 => e \in DOMAIN d1.ep)
      /\ (e \in DOMAIN d1.ep /\ IsNow(d1.ep[e].pid, r)) => d1.ep[e].recv <= a
  BY DEF Copy
<1>2. ASSUME NEW k \in KeysOf(e), NEW i \in 1..a, IsLast(w, a, k, i)
      PROVE  /\ d1.entry[k].val = w[i].val
             /\ w[i].val # Nil => d1.entry[k] = [owner |-> d1.ep[e].id, seq |-> i, val |-> w[i].val, has |-> TRUE]
  BY <1>2 DEF Copy
<1>3. r = 1 => \A k \in KeysOf(e) : (\A i \in 1..a : w[i].key # k) => d1.entry[k].val = Nil
  BY DEF Copy
<1>4. QED
  BY <1>1, <1>2, <1>3 DEF Copy

(* d1 is d with the update m taken, about f; a central module goes on to   *)
(* send what is new.                                                       *)
IsTaken(d1, n, d, m, f, old) ==
    /\ IsDb(d1) /\ DOMAIN d1.ep = DOMAIN d.ep \cup {f}
    /\ (d.event => d1.event) /\ (IsCentral(n) => d1.event)
    /\ \A e \in DOMAIN d.ep : e # f => d1.ep[e] = d.ep[e]
    /\ f \notin DOMAIN d.ep =>
          /\ d1.nextID = d.nextID + 1 /\ d1.ep[f].id = d.nextID /\ d1.ep[f].full /\ d1.ep[f].sent = 0 /\ old = 0
          /\ d1.ep[f].pid = IF Local(n, f) THEN m.pid ELSE 0
    /\ f \in DOMAIN d.ep =>
          /\ d1.nextID = d.nextID /\ d1.ep[f].id = d.ep[f].id /\ d1.ep[f].full = d.ep[f].full
          /\ \/ m.pid # 0 /\ d1.ep[f].pid = m.pid /\ d1.ep[f].sent = 0 /\ old = 0
             \/ /\ m.pid = 0 \/ m.pid = d.ep[f].pid
                /\ d1.ep[f].pid = d.ep[f].pid /\ d1.ep[f].sent = d.ep[f].sent /\ old = d.ep[f].recv
    /\ Took(n, m, f, d, d1, old) /\ old <= d1.ep[f].recv

(* d1 is what n's database becomes when it takes m, its first message.     *)
Taking(D, I, P, W, s, at, mk, n, m, f, old, d1) ==
    /\ Good(D, I, P, W, s, at, mk) /\ n \in Endpoint /\ f \in Endpoint /\ P[n] # 0
    /\ 1 <= Len(I[n]) /\ m = I[n][1] /\ m.type = "update" /\ m.from = f
    /\ IsTaken(d1, n, D[n], m, f, old)

LEMMA TakingFacts ==
    ASSUME NEW D, NEW I, NEW P, NEW W, NEW s, NEW at, NEW mk, NEW n, NEW m, NEW f, NEW old, NEW d1,
           Taking(D, I, P, W, s, at, mk, n, m, f, old, d1)
    PROVE  /\ Good(D, I, P, W, s, at, mk) /\ n \in Endpoint /\ f \in Endpoint /\ P[n] # 0 /\ f # n
           /\ 1 \in 1..Len(I[n]) /\ Len(I[n]) \in Nat /\ I[n][1] = m /\ About(m, f) /\ m.pid \in Nat /\ old \in Nat
           /\ Proper(D, n, m) /\ Took(n, m, f, D[n], d1, old) /\ IsTaken(d1, n, D[n], m, f, old)
           /\ Linked(n, f, D[Source(n, f)])
           /\ \A x \in m.entries : KeyFrom(f, x.key, x.val) /\ WriterOf[x.key] # n /\ x.key \in Key
                                   /\ x.seq \in Nat /\ x.val \in Val
<1>1. /\ Good(D, I, P, W, s, at, mk) /\ n \in Endpoint /\ f \in Endpoint /\ P[n] # 0
      /\ 1 <= Len(I[n]) /\ m = I[n][1] /\ m.type = "update" /\ m.from = f
      /\ IsTaken(d1, n, D[n], m, f, old)
  BY DEF Taking
<1>2. Len(I[n]) \in Nat /\ 1 \in 1..Len(I[n]) /\ m \in Message
  BY <1>1, ModuleFacts
<1>3. Proper(D, n, m)
  BY <1>1, <1>2 DEF Good, Base
<1>4. f # n /\ About(m, f)
  BY <1>1, <1>3 DEF Proper, About
<1>5. m.pid \in Nat /\ \A x \in m.entries : x.key \in Key /\ x.seq \in Nat /\ x.val \in Val
  BY <1>1, <1>2, UpdateIs
<1>6. Took(n, m, f, D[n], d1, old) /\ old \in Nat
  BY <1>1 DEF IsTaken, Took
<1>7. Linked(n, f, D[Source(n, f)])
  BY <1>1, <1>4, <1>2 DEF Good, Starting, Nothing
<1>8. \A x \in m.entries : KeyFrom(f, x.key, x.val) /\ WriterOf[x.key] # n
  BY <1>1, <1>2 DEF Good, Keys
<1>9. QED
  BY <1>1, <1>2, <1>3, <1>4, <1>5, <1>6, <1>7, <1>8

(* Where n's copy of f is once m is taken. *)
Reaching(at, mk, n, m, f, r) == IF IsNow(m.pid, r) THEN mk[n][1] ELSE at[n][f]

LEMMA TakenPair ==
    ASSUME NEW D, NEW I, NEW P, NEW W, NEW s, NEW at, NEW mk, NEW n, NEW m, NEW f, NEW old, NEW d1,
           Taking(D, I, P, W, s, at, mk, n, m, f, old, d1), Live(D, P, n, f),
           NEW r, r = Proc(D, f), NEW a1, a1 = Reaching(at, mk, n, m, f, r)
    PROVE  /\ Copy(f, d1, a1, W[f], r)
           /\ Advance(f, I[n], mk[n], D[n], d1, at[n][f], a1, r)
           /\ Comes(I[n], f, r, 1) <=> IsNow(m.pid, r)
           /\ IsNow(m.pid, r) => News(n, f, I[n], mk[n], D[n], at[n][f], W[f], r, at[Source(n, f)][f]) /\ old <= at[n][f]
                                 /\ a1 = mk[n][1]
           /\ ~IsNow(m.pid, r) => at[n][f] = 0 /\ a1 = 0 /\ ~Direct(n, f)
<1> DEFINE a == at[n][f]
           b == at[Source(n, f)][f]
           q == I[n]
           k0 == mk[n]
           d == D[n]
           w == W[f]
<1>1. /\ Good(D, I, P, W, s, at, mk) /\ n \in Endpoint /\ f \in Endpoint /\ P[n] # 0 /\ f # n
      /\ 1 \in 1..Len(q) /\ Len(q) \in Nat /\ q[1] = m /\ About(m, f) /\ m.pid \in Nat /\ old \in Nat
      /\ Proper(D, n, m) /\ Took(n, m, f, d, d1, old) /\ IsTaken(d1, n, d, m, f, old)
  BY TakingFacts
<1>2. /\ Copy(f, d, a, w, r) /\ a <= b /\ b <= Len(w) /\ Flow(n, f, q, k0, d, a, w, r, b)
  BY <1>1, LiveIs
<1>3. /\ a \in Nat /\ b \in Nat
  BY <1>1, PairFacts
<1>4. /\ k0[1] \in Nat /\ Len(w) \in Nat /\ r \in Nat /\ r >= 1
  BY <1>1, ModuleFacts
<1>5. f \in DOMAIN d.ep => d.ep[f].pid \in Nat /\ d.ep[f].pid <= r
  BY <1>1, ModuleFacts, RecordIs DEF Good, Base, Processes, PidFits
<1>6. m.pid <= r /\ ((Local(n, f) \/ IsCentral(n)) => m.pid > 0) /\ (Direct(n, f) => m.pid = r)
  BY <1>1 DEF Proper, About
<1>7. Comes(q, f, r, 1) <=> IsNow(m.pid, r)
  BY <1>1 DEF Comes
<1>8. /\ f \notin DOMAIN d.ep => old = 0 /\ d1.ep[f].pid = IF Local(n, f) THEN m.pid ELSE 0
      /\ f \in DOMAIN d.ep => \/ m.pid # 0 /\ d1.ep[f].pid = m.pid /\ old = 0
                              \/ (m.pid = 0 \/ m.pid = d.ep[f].pid) /\ d1.ep[f].pid = d.ep[f].pid /\ old = d.ep[f].recv
  BY <1>1 DEF IsTaken
<1>9. CASE IsNow(m.pid, r)
  <2>1. a1 = k0[1]
    BY <1>9 DEF Reaching
  <2>2. News(n, f, q, k0, d, a, w, r, b)
    BY <1>2, <1>3, <1>4, <1>1, <1>7, <1>9, FirstIsNews
  <2>3. old <= a
    BY <1>3, <1>9, <1>5, <1>2, <1>8 DEF IsNow, Copy
  <2>4. Copy(f, d1, a1, w, r)
    <3> HIDE DEF a, b, q, k0, d, w
    <3>1. m = q[1] /\ b <= Len(w)
      BY <1>1, <1>2
    <3>2. QED
      BY <3>1, <2>1, <2>2, <2>3, <1>1, <1>2, <1>3, <1>4, CopyTaken
  <2>5. Advance(f, q, k0, d, d1, a, a1, r)
    BY <2>1, <2>2, <1>1, <1>3, <1>4, <1>7, <1>9 DEF News, KeysOf, Mentions, Took, Advance
  <2>6. QED
    BY <2>1, <2>2, <2>3, <2>4, <2>5, <1>7, <1>9
<1>10. CASE ~IsNow(m.pid, r)
  <2>1. a = 0
    BY <1>1, <1>7, <1>10, <1>2, <1>3 DEF Flow
  <2>2. a1 = 0
    BY <2>1, <1>10 DEF Reaching
  <2>3. r # 1 /\ m.pid # r
    BY <1>10, <1>6, <1>1, <1>4 DEF IsNow
  <2>4. ~Direct(n, f)
    BY <2>3, <1>6
  <2>5. Local(n, f) \/ IsCentral(n)
    BY <2>3 DEF Live
  <2>6. ~IsNow(d1.ep[f].pid, r)
    BY <2>3, <2>5, <1>4, <1>6, <1>8 DEF IsNow
  <2>7. Copy(f, d1, a1, w, r)
    BY <2>2, <1>4, <2>3, <2>6 DEF Copy
  <2>8. Advance(f, q, k0, d, d1, a, a1, r)
    BY <1>1, <2>1, <2>2, <1>3, <1>4, <1>7, <1>10 DEF KeysOf, Mentions, Took, Advance
  <2>9. QED
    BY <2>1, <2>2, <2>4, <2>7, <2>8, <1>7, <1>10
<1>11. QED
  BY <1>9, <1>10

(* Whose entries m changes: f's, and the ports of a module whose central   *)
(* module f is.                                                            *)
LEMMA TakenKeys ==
    ASSUME NEW D, NEW I, NEW P, NEW W, NEW s, NEW at, NEW mk, NEW n, NEW m, NEW f, NEW old, NEW d1,
           Taking(D, I, P, W, s, at, mk, n, m, f, old, d1), NEW e \in Endpoint, e # f, NEW k \in KeysOf(e)
    PROVE  \/ d1.entry[k] = D[n].entry[k]
           \/ /\ d1.entry[k].val = Nil /\ Mentions(m, k) /\ n # e /\ n # CentralOf(e)
              /\ e \in Modules /\ f = CentralOf(e) /\ k = PortsOf[e]
<1>1. /\ n \in Endpoint /\ f \in Endpoint /\ f # n /\ Took(n, m, f, D[n], d1, old)
      /\ \A x \in m.entries : KeyFrom(f, x.key, x.val) /\ WriterOf[x.key] # n
  BY TakingFacts
<1>2. k \in Key /\ WriterOf[k] = e
  BY DEF KeysOf
<1>3. CASE \E x \in m.entries : x.key = k /\ x.seq > old /\ d1.entry[k] = Entered(n, d1.ep[f].id, x)
  BY <1>3, <1>1, KeyIs, EnteredIs, <1>2 DEF Mentions
<1>4. QED
  BY <1>1, <1>2, <1>3, TookEntry

LEMMA TakenOwner ==
    ASSUME NEW D, NEW I, NEW P, NEW W, NEW s, NEW at, NEW mk, NEW n, NEW m, NEW f, NEW old, NEW d1,
           Taking(D, I, P, W, s, at, mk, n, m, f, old, d1), NEW e \in DOMAIN d1.ep, NEW k \in OwnedBy(d1, e)
    PROVE  \/ /\ e \in DOMAIN D[n].ep /\ k \in OwnedBy(D[n], e) /\ d1.entry[k] = D[n].entry[k]
              /\ \A x \in m.entries : x.key = k => x.seq <= old
           \/ /\ e = f
              /\ \E x \in m.entries : /\ x.key = k /\ x.seq > old
                                      /\ d1.entry[k].seq = x.seq /\ d1.entry[k].val = x.val
<1> DEFINE d == D[n]
<1>1. /\ n \in Endpoint /\ f \in Endpoint /\ f # n /\ Took(n, m, f, d, d1, old) /\ IsTaken(d1, n, d, m, f, old)
      /\ Good(D, I, P, W, s, at, mk)
  BY TakingFacts
<1>2. /\ k \in Key /\ d1.entry[k].has /\ d1.entry[k].owner = d1.ep[e].id
  BY DEF OwnedBy
<1>3. /\ IsDb(d) /\ Numbered(d, n, W[n])
  BY <1>1, ModuleFacts
<1>4. /\ \A g, h \in DOMAIN d.ep : d.ep[g].id = d.ep[h].id => g = h
      /\ \A g \in DOMAIN d.ep : d.ep[g].id < d.nextID /\ d.ep[g].id \in Nat
      /\ \A j \in Key : d.entry[j].has => d.entry[j].owner < d.nextID
      /\ d.nextID \in Nat
  BY <1>3, RecordIs DEF Numbered
<1>5. /\ DOMAIN d1.ep = DOMAIN d.ep \cup {f}
      /\ \A g \in DOMAIN d.ep : d1.ep[g].id = d.ep[g].id
      /\ f \notin DOMAIN d.ep => d1.ep[f].id = d.nextID
  BY <1>1 DEF IsTaken
<1>6. CASE \E x \in m.entries : x.key = k /\ x.seq > old /\ d1.entry[k] = Entered(n, d1.ep[f].id, x)
  BY <1>6, <1>2, EnteredIs, <1>4, <1>5
<1>7. CASE d1.entry[k] = d.entry[k] /\ \A x \in m.entries : x.key = k => x.seq <= old
  BY <1>2, <1>4, <1>7, <1>5 DEF OwnedBy
<1>8. QED
  BY <1>1, <1>2, <1>6, <1>7, TookEntry

(* Every written key was written last by some write. *)
LEMMA LastExists ==
    ASSUME NEW w, NEW b \in Nat, NEW k, NEW i \in 1..b, w[i].key = k
    PROVE  \E j \in 1..b : IsLast(w, b, k, j) /\ i <= j
<1> DEFINE S == {j \in 1..b : w[j].key = k}
<1>1. S \subseteq Nat /\ S # {} /\ \A j \in S : j <= b
  OBVIOUS
<1>2. i \in S
  OBVIOUS
<1> HIDE DEF S
<1>3. PICK j \in S : \A l \in S : l <= j
  BY <1>1, GreatestNumber
<1>4. j \in 1..b /\ w[j].key = k /\ \A l \in 1..b : w[l].key = k => l <= j
  BY <1>3 DEF S
<1>5. IsLast(w, b, k, j) /\ i <= j
  BY <1>2, <1>3, <1>4 DEF IsLast
<1>6. QED
  BY <1>4, <1>5

LEMMA TakenOwned ==
    ASSUME NEW D, NEW I, NEW P, NEW W, NEW s, NEW at, NEW mk, NEW n, NEW m, NEW f, NEW old, NEW d1,
           Taking(D, I, P, W, s, at, mk, n, m, f, old, d1), Forwards(D, P, n, f),
           NEW r, r = Proc(D, f), NEW a1, a1 = Reaching(at, mk, n, m, f, r)
    PROVE  Owned(f, d1, a1, W[f])
<1> DEFINE d == D[n]
           a == at[n][f]
           w == W[f]
           b == at[Source(n, f)][f]
<1>1. /\ Good(D, I, P, W, s, at, mk) /\ n \in Endpoint /\ f \in Endpoint /\ P[n] # 0 /\ f # n
      /\ Proper(D, n, m) /\ Took(n, m, f, d, d1, old) /\ IsTaken(d1, n, d, m, f, old) /\ About(m, f)
      /\ I[n][1] = m /\ m.pid \in Nat
  BY TakingFacts
<1>2. /\ P[f] # 0 /\ IsCentral(n) /\ (Local(n, f) \/ r = 1)
  BY <1>1 DEF Forwards
<1>3. Live(D, P, n, f)
  BY <1>1, <1>2 DEF Live
<1>4. IsNow(m.pid, r)
  BY <1>1, <1>2 DEF Proper, Direct, About, IsNow
<1>5. News(n, f, I[n], mk[n], d, a, w, r, b) /\ old <= a /\ a1 = mk[n][1]
  BY <1>3, <1>4, TakenPair
<1>6. a \in Nat /\ a1 \in Nat /\ a <= a1 /\ a1 <= b /\ old \in Nat
  BY <1>5, <1>1 DEF News, Took
<1>7. /\ \A x \in m.entries :
            /\ x.seq \in 1..a1
            /\ x.key \in KeysOf(f) => IsLast(w, a1, x.key, x.seq) /\ x.val = w[x.seq].val
      /\ \A k \in KeysOf(f), i \in 1..a1 : IsLast(w, a1, k, i) =>
            \/ i <= a
            \/ \E x \in m.entries : x.key = k /\ x.seq = i
            \/ a = 0
  BY <1>1, <1>5 DEF News
<1>8. Owned(f, d, a, w)
  BY <1>1, Zenon DEF Good, Owning, Forwards
<1>9. ASSUME NEW k \in OwnedBy(d1, f)
      PROVE  /\ d1.entry[k].seq \in 1..a1
             /\ k \in KeysOf(f) => IsLast(w, a1, k, d1.entry[k].seq) /\ d1.entry[k].val = w[d1.entry[k].seq].val
  <2>0. f \in DOMAIN d1.ep
    BY <1>1 DEF IsTaken
  <2>1. CASE \E x \in m.entries : x.key = k /\ d1.entry[k].seq = x.seq /\ d1.entry[k].val = x.val
    BY <2>1, <1>7
  <2>2. CASE /\ f \in DOMAIN d.ep /\ k \in OwnedBy(d, f) /\ d1.entry[k] = d.entry[k]
             /\ \A x \in m.entries : x.key = k => x.seq <= old
    <3> DEFINE i == d.entry[k].seq
    <3>1. /\ i \in 1..a
          /\ k \in KeysOf(f) => IsLast(w, a, k, i) /\ d.entry[k].val = w[i].val
      BY <2>2, <1>8 DEF Owned
    <3> HIDE DEF i
    <3>2. i \in 1..a1 /\ a # 0
      BY <3>1, <1>6
    <3>3. ASSUME k \in KeysOf(f) PROVE IsLast(w, a1, k, i)
      <4>1. IsLast(w, a, k, i) /\ w[i].key = k
        BY <3>1, <3>3 DEF IsLast
      <4>2. PICK j \in 1..a1 : IsLast(w, a1, k, j) /\ i <= j
        BY <4>1, <3>2, <1>6, LastExists
      <4>3. CASE j <= a
        BY <4>2, <4>3, <1>6, LastBelow, <4>1, LastIsOne
      <4>4. CASE \E x \in m.entries : x.key = k /\ x.seq = j
        BY <4>4, <2>2, <1>5, <1>6, <4>3
      <4>5. QED
        BY <4>2, <4>3, <4>4, <3>2, <3>3, <1>7
    <3>4. QED
      BY <3>1, <3>2, <3>3, <2>2 DEF i
  <2>3. QED
    BY <2>0, <2>1, <2>2, TakenOwner
<1>10. QED
  BY <1>9 DEF Owned

(* What n, a central module, took for another module is still to be sent.  *)
LEMMA TakenPass ==
    ASSUME NEW D, NEW I, NEW P, NEW W, NEW s, NEW at, NEW mk, NEW n, NEW m, NEW f, NEW old, NEW d1,
           Taking(D, I, P, W, s, at, mk, n, m, f, old, d1),
           NEW y \in Endpoint, y # f, y # n, Source(y, f) = n, Live(D, P, y, f), Linked(y, f, D[n]),
           NEW r, r = Proc(D, f), NEW a1, a1 = Reaching(at, mk, n, m, f, r)
    PROVE  Sent(y, f, I[y], mk[y], D[y], at[y][f], W[f], r, d1, a1)
<1> DEFINE d == D[n]
           a == at[n][f]
           w == W[f]
           b == at[Source(n, f)][f]
           q == I[y]
<1>1. /\ Good(D, I, P, W, s, at, mk) /\ n \in Endpoint /\ f \in Endpoint /\ P[n] # 0 /\ f # n
      /\ Took(n, m, f, d, d1, old) /\ IsTaken(d1, n, d, m, f, old) /\ About(m, f) /\ I[n][1] = m /\ old \in Nat
  BY TakingFacts
<1>2. Live(D, P, n, f) /\ IsCentral(n)
  BY <1>1, LiveIs, Places DEF Source
<1>3. /\ Sent(y, f, q, mk[y], D[y], at[y][f], w, r, d, a)
      /\ Flow(y, f, q, mk[y], D[y], at[y][f], w, r, a) /\ Copy(f, D[y], at[y][f], w, r)
      /\ at[y][f] <= a
  BY <1>1, LiveIs DEF Good, Sending
<1>4. at[y][f] \in Nat /\ a \in Nat /\ Len(q) \in Nat /\ \A j \in 1..Len(q) : mk[y][j] \in Nat /\ q[j] \in Message
  BY <1>1, PairFacts, ModuleFacts
<1>5. CASE ~IsNow(m.pid, r)
  BY <1>2, <1>5, TakenPair DEF Sent
<1>6. CASE IsNow(m.pid, r)
  <2>1. News(n, f, I[n], mk[n], d, a, w, r, b) /\ old <= a /\ a1 = mk[n][1]
    BY <1>2, <1>6, TakenPair
  <2>2. a1 \in Nat /\ a <= a1 /\ a1 <= b
    BY <2>1 DEF News
  <2>3. /\ \A x \in m.entries :
              /\ x.seq \in 1..a1
              /\ x.key \in KeysOf(f) => IsLast(w, a1, x.key, x.seq) /\ x.val = w[x.seq].val
        /\ \A k \in KeysOf(f), i \in 1..a1 : IsLast(w, a1, k, i) =>
              \/ i <= a
              \/ \E x \in m.entries : x.key = k /\ x.seq = i
              \/ ~Direct(n, f) /\ a = 0 /\ w[i].val = Nil /\ d.entry[k].val = Nil /\ ~Mentions(m, k)
    BY <1>1, <2>1 DEF News
  <2>4. /\ f \in DOMAIN d1.ep /\ d1.event /\ d1.ep[f].sent \in Nat
        /\ f \in DOMAIN d.ep => d1.ep[f].id = d.ep[f].id
        /\ d1.ep[f].sent = 0 \/ (f \in DOMAIN d.ep /\ d1.ep[f].sent = d.ep[f].sent /\ d.ep[f].sent <= old)
    BY <1>1, ModuleFacts, RecordIs, <1>2 DEF Numbered, IsTaken
  <2>5. ASSUME NEW k \in KeysOf(f), NEW i \in 1..a1, NEW x \in m.entries, x.key = k, x.seq = i, x.seq > old,
               d1.entry[k] = Entered(n, d1.ep[f].id, x), i > d1.ep[f].sent
        PROVE  Pending(d1, f, k, i)
    <3>1. d1.entry[k].has /\ d1.entry[k].owner = d1.ep[f].id /\ d1.entry[k].seq = i
      <4>1. SUFFICES ASSUME NEW id, id = d1.ep[f].id, NEW z, z = d1.entry[k], z = Entered(n, id, x)
                     PROVE  z.has /\ z.owner = id /\ z.seq = i
        BY <2>5
      <4>2. z = [owner |-> id, seq |-> x.seq, val |-> x.val, has |-> TRUE]
        BY <4>1, <1>2, Zenon DEF Entered
      <4>3. QED
        BY <4>2, <2>5
    <3>2. k \in Key
      BY DEF KeysOf
    <3>3. QED
      BY <3>1, <3>2, <2>4, <2>5 DEF Pending, OwnedBy
  <2>6. ASSUME NEW k \in KeysOf(f), NEW i \in 1..a1, IsLast(w, a1, k, i), i <= a
        PROVE  Covered(y, f, q, mk[y], D[y], at[y][f], w, r, k, i, Len(q)) \/ Pending(d1, f, k, i)
    <3>1. i \in 1..a /\ IsLast(w, a, k, i) /\ k \in Key
      BY <2>2, <2>6, <1>4, LastBelow DEF KeysOf
    <3>2. CASE Pending(d, f, k, i)
      BY <3>2, <2>4, <3>1, <2>3, <2>2, <2>6, LastIsOne, <2>5, <1>1, TookEntry DEF Pending, OwnedBy
    <3>3. QED
      BY <3>1, <3>2, <1>3 DEF Sent
  <2>7. ASSUME NEW k \in KeysOf(f), NEW i \in 1..a1, NEW x \in m.entries, x.key = k, x.seq = i, i > a
        PROVE  Pending(d1, f, k, i)
    BY <2>7, <2>1, <2>2, <1>1, <1>4, <2>4, <2>5 DEF Took
  <2>8. ASSUME NEW k \in KeysOf(f), NEW i \in 1..a1, ~Direct(n, f), a = 0, w[i].val = Nil
        PROVE  Unheard(y, f, q, mk[y], D[y], at[y][f], w, r, k, i, Len(q))
    <3>1. ~Local(n, f) /\ at[y][f] = 0
      BY <2>8, <1>2, <1>3, <1>4 DEF Direct
    <3>2. r = 1 /\ ~Direct(y, f)
      BY <3>1, <1>1, Places DEF Source, Local, Live, Direct
    <3>3. D[y].entry[k].val = Nil
      BY <3>1, <3>2, <1>3 DEF Copy
    <3>4. ASSUME NEW l \in 1..Len(q), About(q[l], f) PROVE mk[y][l] = 0 /\ ~Mentions(q[l], k)
      <4>1. Comes(q, f, r, l)
        <5>1. Proper(D, y, q[l]) /\ q[l].type = "update" /\ q[l].from = f
          BY <3>4, <1>1 DEF Good, Base, About
        <5>2. q[l].pid \in Nat /\ q[l].pid <= 1
          BY <5>1, <3>2, <1>4, UpdateIs DEF Proper
        <5>3. IsNow(q[l].pid, r)
          BY <5>2, <3>2 DEF IsNow
        <5>4. QED
          BY <5>3, <3>4 DEF Comes
      <4>2. mk[y][l] <= a /\ mk[y][l] \in Nat /\ \A x \in q[l].entries : x.seq \in 1..mk[y][l]
        BY <4>1, <1>3, <1>4 DEF Flow, Whole
      <4>3. mk[y][l] = 0
        BY <4>2, <2>8
      <4>4. QED
        BY <4>2, <4>3 DEF Mentions
    <3>5. \A l \in 1..Len(q) : Comes(q, f, r, l) => mk[y][l] = 0 \/ i <= mk[y][l]
      BY <3>4 DEF Comes
    <3>6. QED
      BY <3>1, <3>2, <3>3, <3>4, <3>5, <2>8 DEF Unheard
  <2>9. ASSUME NEW k \in KeysOf(f), NEW i \in 1..a1, IsLast(w, a1, k, i)
        PROVE  Covered(y, f, q, mk[y], D[y], at[y][f], w, r, k, i, Len(q)) \/ Pending(d1, f, k, i)
    BY <2>6, <2>9, <2>7, <2>8, <2>3, <2>2, <1>4 DEF Covered
  <2>10. QED
    BY <2>9 DEF Sent
<1>7. QED
  BY <1>5, <1>6

LEMMA TakenNumbered ==
    ASSUME NEW D, NEW I, NEW P, NEW W, NEW s, NEW at, NEW mk, NEW n, NEW m, NEW f, NEW old, NEW d1,
           Taking(D, I, P, W, s, at, mk, n, m, f, old, d1)
    PROVE  /\ Numbered(d1, n, W[n]) /\ IsDb(d1) /\ n \in DOMAIN D[n].ep /\ d1.ep[n] = D[n].ep[n]
           /\ \A e \in DOMAIN d1.ep : PidFits(D, n, e, d1.ep[e].pid)
<1> DEFINE d == D[n]
<1>1. /\ n \in Endpoint /\ f \in Endpoint /\ f # n /\ Took(n, m, f, d, d1, old) /\ IsTaken(d1, n, d, m, f, old)
      /\ Good(D, I, P, W, s, at, mk) /\ Proper(D, n, m) /\ About(m, f) /\ m.pid \in Nat
      /\ \A x \in m.entries : x.key \in Key /\ x.seq \in Nat /\ x.val \in Val
  BY TakingFacts
<1>2. IsDb(d) /\ Numbered(d, n, W[n])
  BY <1>1, ModuleFacts
<1>3. /\ d.nextID \in Nat
      /\ \A e \in DOMAIN d.ep : d.ep[e].id \in Nat /\ d.ep[e].sent \in Nat /\ d.ep[e].recv \in Nat /\ d.ep[e].pid \in Nat
      /\ \A k \in Key : d.entry[k].seq \in Nat /\ d.entry[k].owner \in Int
  BY <1>2, RecordIs DEF NullID
<1>4. /\ IsDb(d1) /\ DOMAIN d1.ep = DOMAIN d.ep \cup {f}
      /\ \A e \in DOMAIN d.ep : e # f => d1.ep[e] = d.ep[e]
      /\ f \notin DOMAIN d.ep =>
            /\ d1.nextID = d.nextID + 1 /\ d1.ep[f].id = d.nextID /\ d1.ep[f].sent = 0
            /\ d1.ep[f].pid = IF Local(n, f) THEN m.pid ELSE 0
      /\ f \in DOMAIN d.ep =>
            /\ d1.nextID = d.nextID /\ d1.ep[f].id = d.ep[f].id
            /\ \/ m.pid # 0 /\ d1.ep[f].pid = m.pid /\ d1.ep[f].sent = 0
               \/ d1.ep[f].pid = d.ep[f].pid /\ d1.ep[f].sent = d.ep[f].sent /\ old = d.ep[f].recv
      /\ old <= d1.ep[f].recv
  BY <1>1 DEF IsTaken
<1>5. d1.ep[f].recv \in Nat /\ \A k \in Key : d1.entry[k].seq \in Nat
  BY <1>4, RecordIs
<1>6. /\ n \in DOMAIN d.ep /\ d.ep[n].id = 0 /\ d.ep[n].recv = Len(W[n])
      /\ \A e, g \in DOMAIN d.ep : d.ep[e].id = d.ep[g].id => e = g
      /\ \A e \in DOMAIN d.ep : d.ep[e].id < d.nextID /\ d.ep[e].sent <= d.ep[e].recv
      /\ \A k \in Key : d.entry[k].has => d.entry[k].owner < d.nextID
      /\ \E b \in Nat : \A k \in Key : d.entry[k].seq <= b
  BY <1>2 DEF Numbered
<1>7. n \in DOMAIN d1.ep /\ d1.ep[n] = d.ep[n]
  BY <1>1, <1>4, <1>6
<1>8. ASSUME NEW e \in DOMAIN d1.ep, NEW g \in DOMAIN d1.ep, d1.ep[e].id = d1.ep[g].id PROVE e = g
  BY <1>8, <1>4, <1>6, <1>3
<1>9. d1.nextID \in Nat /\ d.nextID <= d1.nextID
  BY <1>3, <1>4
<1>10. ASSUME NEW e \in DOMAIN d1.ep PROVE d1.ep[e].id < d1.nextID /\ d1.ep[e].sent <= d1.ep[e].recv
  <2>1. CASE e # f
    BY <2>1, <1>3, <1>4, <1>6, <1>9
  <2>2. CASE e = f
    BY <2>2, <1>3, <1>4, <1>5, <1>6, <1>9
  <2>3. QED
    BY <2>1, <2>2
<1>11. ASSUME NEW k \in Key, d1.entry[k].has PROVE d1.entry[k].owner < d1.nextID
  <2>1. CASE d1.entry[k] = d.entry[k]
    BY <2>1, <1>11, <1>3, <1>6, <1>9
  <2>2. CASE d1.entry[k].owner = d1.ep[f].id
    BY <2>2, <1>4, <1>10
  <2>3. QED
    BY <2>1, <2>2, <1>1, <1>11, TookEntry, EnteredIs
<1>12. \E b \in Nat : \A k \in Key : d1.entry[k].seq <= b
  <2>1. PICK b0 \in Nat : \A k \in Key : d.entry[k].seq <= b0
    BY <1>6
  <2>2. PICK b1 \in Nat : \A x \in m.entries : x.seq <= b1
    BY <1>1 DEF Proper, About
  <2>3. ASSUME NEW k \in Key PROVE d1.entry[k].seq <= b0 + b1
    <3>1. CASE d1.entry[k] = d.entry[k]
      BY <2>1, <1>3, <3>1
    <3>2. CASE \E x \in m.entries : d1.entry[k] = Entered(n, d1.ep[f].id, x)
      BY <3>2, <2>2, <1>1 DEF Entered, NoEntry
    <3>3. QED
      BY <3>1, <3>2, <1>1, TookEntry
  <2>4. b0 + b1 \in Nat
    OBVIOUS
  <2>5. QED
    BY <2>3, <2>4
<1>13. ASSUME NEW e \in DOMAIN d1.ep PROVE PidFits(D, n, e, d1.ep[e].pid)
  <2>1. \A g \in DOMAIN d.ep : PidFits(D, n, g, d.ep[g].pid)
    BY <1>1 DEF Good, Base, Processes
  <2>2. CASE e # f
    BY <2>1, <2>2, <1>4
  <2>3. CASE e = f
    BY <1>1, <2>3, <2>1, ModuleFacts, <1>4 DEF Proper, About, PidFits, Direct
  <2>4. QED
    BY <2>2, <2>3
<1>14. QED
  BY <1>4, <1>6, <1>7, <1>8, <1>10, <1>11, <1>12, <1>13 DEF Numbered

(* The step: n takes m, and what it has of f advances.                     *)
Taken1(D, I, P, W, s, at, mk, n, m, f, old, D1, I1, at1, mk1) ==
    /\ Taking(D, I, P, W, s, at, mk, n, m, f, old, D1[n])
    /\ Total(D1) /\ \A x \in Endpoint : x # n => D1[x] = D[x]
    /\ I1 \in [Endpoint -> Seq(Message)] /\ Without(I1[n], I[n], 1) /\ \A x \in Endpoint : x # n => I1[x] = I[x]
    /\ mk1 \in [Endpoint -> Seq(Nat)] /\ Len(mk1[n]) = Len(I1[n])
    /\ \A j \in 1..Len(I1[n]) : mk1[n][j] = mk[n][Skip(1, j)]
    /\ \A x \in Endpoint : x # n => mk1[x] = mk[x]
    /\ at1 \in [Endpoint -> [Endpoint -> Nat]] /\ at1[n][f] = Reaching(at, mk, n, m, f, Proc(D, f))
    /\ \A x, e \in Endpoint : (x # n \/ e # f) => at1[x][e] = at[x][e]

LEMMA TakenClearing ==
    ASSUME NEW D, NEW I, NEW P, NEW W, NEW s, NEW at, NEW mk, NEW n, NEW m, NEW f, NEW old,
           NEW D1, NEW I1, NEW at1, NEW mk1, Taken1(D, I, P, W, s, at, mk, n, m, f, old, D1, I1, at1, mk1),
           NEW e \in Modules, P[e] # 0, NEW r, r = Proc(D, e), NEW c, c = CentralOf(e), NEW k, k = PortsOf[e]
    PROVE  /\ Uncleared(D1, at1, W, e)
           /\ \A y \in Endpoint : (y # e /\ y # c /\ Live(D, P, y, e)) =>
                 ClearedFirst(y, e, I1[y], at1[y][e], W[e], r)
           /\ r = 1 => NeverCleared(D1, I1, e)
<1> DEFINE d == D[n]
           d1 == D1[n]
           q == I[n]
           q1 == I1[n]
           w == W[e]
<1>1. /\ n \in Endpoint /\ f \in Endpoint /\ f # n /\ Took(n, m, f, d, d1, old) /\ IsTaken(d1, n, d, m, f, old)
      /\ Good(D, I, P, W, s, at, mk) /\ About(m, f) /\ q[1] = m /\ 1 \in 1..Len(q) /\ Len(q) \in Nat /\ P[n] # 0
  BY TakingFacts DEF Taken1
<1>2. /\ Taking(D, I, P, W, s, at, mk, n, m, f, old, d1)
      /\ \A x \in Endpoint : x # n => D1[x] = D[x] /\ I1[x] = I[x]
      /\ at1[n][f] = Reaching(at, mk, n, m, f, Proc(D, f))
      /\ \A x, g \in Endpoint : (x # n \/ g # f) => at1[x][g] = at[x][g]
  BY DEF Taken1
<1>3. e \in Endpoint /\ c \in Endpoint /\ IsCentral(c) /\ Local(c, e) /\ k \in KeysOf(e) /\ k \in Key /\ e # c
  BY MnemosynthAssumption, Places DEF Modules, KeysOf
<1>4. /\ k \in OwnedBy(D[c], c) =>
             /\ \A i \in 1..at[c][e] : w[i].key # k
             /\ e \in DOMAIN D[c].ep => D[c].ep[e].full
      /\ \A y \in Endpoint : (y # e /\ y # c /\ Live(D, P, y, e)) => ClearedFirst(y, e, I[y], at[y][e], w, r)
      /\ r = 1 => NeverCleared(D, I, e)
  BY DEF Taking, Good, Clearing, Uncleared, Taken1
<1>5. /\ Len(q1) = Len(q) - 1 /\ \A l \in 1..Len(q1) : q1[l] = q[l + 1] /\ l + 1 \in 1..Len(q)
  <2>1. Without(q1, q, 1)
    BY DEF Taken1
  <2>2. ASSUME NEW l \in 1..Len(q1) PROVE Skip(1, l) = l + 1
    BY DEF Skip
  <2>3. QED
    BY <2>1, <2>2, <1>1 DEF Without
<1>6. Uncleared(D1, at1, W, e)
  <2>1. SUFFICES ASSUME k \in OwnedBy(D1[c], c)
                 PROVE  /\ \A i \in 1..at1[c][e] : w[i].key # k
                        /\ e \in DOMAIN D1[c].ep => D1[c].ep[e].full
    BY DEF Uncleared
  <2>2. CASE c # n
    BY <2>1, <2>2, <1>2, <1>3, <1>4
  <2>3. CASE c = n
    <3>1. c \in DOMAIN d1.ep
      BY <2>3, <1>2, TakenNumbered DEF Numbered
    <3>2. k \in OwnedBy(d, c) /\ \A x \in m.entries : x.key = k => x.seq <= old
      BY <3>1, <2>1, <2>3, <1>1, <1>2, TakenOwner
    <3>3. /\ \A i \in 1..at[c][e] : w[i].key # k
          /\ e \in DOMAIN d.ep => d.ep[e].full
      BY <3>2, <2>3, <1>4
    <3>4. e \in DOMAIN d1.ep => d1.ep[e].full
      BY <3>3, <1>1 DEF IsTaken
    <3>5. ASSUME NEW i \in 1..at1[c][e], w[i].key = k PROVE FALSE
      <4>1. CASE e # f
        BY <4>1, <3>3, <3>5, <2>3, <1>1, <1>2, <1>3
      <4>2. CASE e = f
        <5>1. Live(D, P, n, f) /\ Direct(n, f)
          BY <4>2, <2>3, <1>1, <1>3 DEF Live, Direct
        <5>2. /\ IsNow(m.pid, r) /\ at1[n][f] = mk[n][1] /\ old <= at[n][f]
              /\ News(n, f, q, mk[n], d, at[n][f], w, r, at[Source(n, f)][f])
          BY <5>1, <4>2, <1>2, TakenPair
        <5>3. mk[n][1] \in Nat /\ at[n][f] \in Nat /\ old \in Nat /\ at1[c][e] = mk[n][1] /\ at[c][e] = at[n][f]
          BY <5>2, <4>2, <2>3, <1>1 DEF News, Took
        <5>4. PICK j \in 1..mk[n][1] : IsLast(w, mk[n][1], k, j)
          BY <5>3, <3>5, LastExists
        <5>5. ~(j <= at[n][f])
          BY <5>3, <5>4, <3>3 DEF IsLast
        <5>6. \E x \in m.entries : x.key = k /\ x.seq = j
          BY <5>1, <5>2, <5>4, <5>5, <4>2, <1>1, <1>3 DEF News
        <5>7. j <= old
          BY <5>6, <3>2
        <5>8. QED
          BY <5>2, <5>3, <5>5, <5>7
      <4>3. QED
        BY <4>1, <4>2
    <3>6. QED
      BY <3>4, <3>5, <2>3
  <2>4. QED
    BY <2>2, <2>3
<1>7. ASSUME NEW y \in Endpoint, y # e, y # c, Live(D, P, y, e)
      PROVE  ClearedFirst(y, e, I1[y], at1[y][e], w, r)
  <2>1. CASE y # n
    BY <2>1, <1>2, <1>3, <1>4, <1>7
  <2>2. CASE y = n
    <3>1. ClearedFirst(n, e, q, at[n][e], w, r)
      BY <2>2, <1>4, <1>7
    <3>2. ASSUME NEW l \in 1..Len(q1), About(q1[l], c), Mentions(q1[l], k)
          PROVE  /\ \A i \in 1..at1[n][e] : IsLast(w, at1[n][e], k, i) => w[i].val = Nil
                 /\ \A j \in 1..l - 1 : Comes(q1, e, r, j) => ~Mentions(q1[j], k)
      <4>1. /\ \A i \in 1..at[n][e] : IsLast(w, at[n][e], k, i) => w[i].val = Nil
            /\ \A j \in 1..l : Comes(q, e, r, j) => ~Mentions(q[j], k)
        BY <3>2, <1>5, <3>1 DEF ClearedFirst
      <4>2. ASSUME NEW j \in 1..l - 1, Comes(q1, e, r, j) PROVE ~Mentions(q1[j], k)
        BY <1>5, <1>1, <4>2, <4>1 DEF Comes
      <4>3. ASSUME NEW i \in 1..at1[n][e], IsLast(w, at1[n][e], k, i) PROVE w[i].val = Nil
        <5>1. CASE e # f
          BY <5>1, <4>1, <4>3, <1>1, <1>2, <1>3
        <5>2. CASE e = f /\ ~IsNow(m.pid, r)
          BY <5>2, <1>2, <4>1, <4>3 DEF Reaching
        <5>3. CASE e = f /\ IsNow(m.pid, r)
          <6>1. /\ at1[n][f] = mk[n][1] /\ Comes(q, e, r, 1)
                /\ News(n, f, q, mk[n], d, at[n][f], w, r, at[Source(n, f)][f])
            BY <5>3, <2>2, <1>2, <1>7, TakenPair
          <6>2. mk[n][1] \in Nat /\ at[n][f] \in Nat /\ at[n][f] <= mk[n][1]
            BY <6>1 DEF News
          <6>3. ~Mentions(m, k)
            BY <4>1, <6>1, <1>1
          <6>4. \/ i <= at[n][f] \/ w[i].val = Nil
            BY <6>1, <6>3, <5>3, <4>3, <1>1, <1>3 DEF News, Mentions
          <6>5. i <= at[n][f] => IsLast(w, at[n][e], k, i) /\ i \in 1..at[n][e]
            <7>1. IsLast(w, mk[n][1], k, i) /\ at[n][e] = at[n][f] /\ i \in Nat /\ 1 <= i
              BY <6>1, <6>2, <5>3, <4>3 DEF IsLast
            <7>2. QED
              BY ONLY <6>2, <7>1, LastBelow DEF IsLast
          <6>6. QED
            BY <6>4, <6>5, <4>1
        <5>4. QED
          BY <5>1, <5>2, <5>3
      <4>4. QED
        BY <4>2, <4>3
    <3>3. QED
      BY <3>2, <2>2 DEF ClearedFirst
  <2>3. QED
    BY <2>1, <2>2
<1>8. ASSUME r = 1 PROVE NeverCleared(D1, I1, e)
  <2>1. NeverCleared(D, I, e)
    BY <1>4, <1>8
  <2>2. ASSUME NEW y \in Endpoint, c \in DOMAIN D1[y].ep, k \in OwnedBy(D1[y], c) PROVE FALSE
    BY <2>1, <2>2, <1>2, <1>1, TakenOwner DEF NeverCleared, Mentions
  <2>3. ASSUME NEW y \in Endpoint, NEW l \in 1..Len(I1[y]), About(I1[y][l], c), Mentions(I1[y][l], k) PROVE FALSE
    <3>1. \E j \in 1..Len(I[y]) : I1[y][l] = I[y][j]
      BY <1>2, <1>5
    <3>2. QED
      BY <3>1, <2>1, <2>3 DEF NeverCleared
  <2>4. QED
    BY <2>2, <2>3 DEF NeverCleared
<1>9. QED
  BY <1>6, <1>7, <1>8

LEMMA PairLess ==
    ASSUME NEW q, NEW q1, Len(q) \in Nat, Len(q1) \in Nat, NEW m, NEW m1, NEW n, NEW e,
           Without(q1, q, 1), Empty(q[1], e), \A j \in 1..Len(q1) : m1[j] = m[Skip(1, j)]
    PROVE  /\ \A d, a, w, r, b : Flow(n, e, q, m, d, a, w, r, b) => Flow(n, e, q1, m1, d, a, w, r, b)
           /\ \A d, a, w, r, pd, b : Sent(n, e, q, m, d, a, w, r, pd, b) => Sent(n, e, q1, m1, d, a, w, r, pd, b)
BY FlowWithout, SentWithout

LEMMA TakeKeeps ==
    ASSUME NEW D, NEW I, NEW P, NEW W, NEW s, NEW at, NEW mk, NEW n, NEW m, NEW f, NEW old,
           NEW D1, NEW I1, NEW at1, NEW mk1, Taken1(D, I, P, W, s, at, mk, n, m, f, old, D1, I1, at1, mk1)
    PROVE  Good(D1, I1, P, W, s, at1, mk1)
<1> DEFINE d == D[n]
           d1 == D1[n]
<1>1. /\ n \in Endpoint /\ f \in Endpoint /\ f # n /\ Took(n, m, f, d, d1, old) /\ IsTaken(d1, n, d, m, f, old)
      /\ Good(D, I, P, W, s, at, mk) /\ About(m, f) /\ I[n][1] = m /\ 1 \in 1..Len(I[n]) /\ Len(I[n]) \in Nat /\ P[n] # 0
      /\ Linked(n, f, D[Source(n, f)])
      /\ \A x \in m.entries : KeyFrom(f, x.key, x.val) /\ WriterOf[x.key] # n /\ x.key \in Key
  BY TakingFacts DEF Taken1
<1>2. /\ Taking(D, I, P, W, s, at, mk, n, m, f, old, d1) /\ Total(D1)
      /\ \A x \in Endpoint : x # n => D1[x] = D[x] /\ I1[x] = I[x] /\ mk1[x] = mk[x]
      /\ I1 \in [Endpoint -> Seq(Message)] /\ Without(I1[n], I[n], 1)
      /\ mk1 \in [Endpoint -> Seq(Nat)] /\ Len(mk1[n]) = Len(I1[n])
      /\ \A j \in 1..Len(I1[n]) : mk1[n][j] = mk[n][Skip(1, j)]
      /\ at1 \in [Endpoint -> [Endpoint -> Nat]] /\ at1[n][f] = Reaching(at, mk, n, m, f, Proc(D, f))
      /\ \A x, e \in Endpoint : (x # n \/ e # f) => at1[x][e] = at[x][e]
  BY DEF Taken1
<1>3. /\ Numbered(d1, n, W[n]) /\ IsDb(d1) /\ n \in DOMAIN d.ep /\ d1.ep[n] = d.ep[n]
      /\ \A e \in DOMAIN d1.ep : PidFits(D, n, e, d1.ep[e].pid)
  BY <1>2, TakenNumbered
<1>4. ASSUME NEW x \in Endpoint PROVE Proc(D1, x) = Proc(D, x)
  BY <1>2, <1>3 DEF Proc
<1>5. ASSUME NEW x \in Endpoint, NEW e \in Endpoint
      PROVE  /\ Live(D1, P, x, e) <=> Live(D, P, x, e)
             /\ Forwards(D1, P, x, e) <=> Forwards(D, P, x, e)
  BY <1>4, LiveSame
<1>6. ASSUME NEW x \in Endpoint, NEW e \in Endpoint
      PROVE  Linked(x, e, D1[Source(x, e)]) <=> Linked(x, e, D[Source(x, e)])
  <2> DEFINE p == Source(x, e)
  <2>1. p \in Endpoint
    BY Places
  <2> HIDE DEF p
  <2>2. (x \in DOMAIN D1[p].ep /\ ~D1[p].ep[x].full) <=> (x \in DOMAIN D[p].ep /\ ~D[p].ep[x].full)
    <3>1. CASE p # n
      BY <3>1, <2>1, <1>2
    <3>2. CASE p = n /\ x # f
      BY <3>2, <1>1 DEF IsTaken
    <3>3. CASE p = n /\ x = f
      BY <3>3, <1>1 DEF IsTaken
    <3>4. QED
      BY <3>1, <3>2, <3>3
  <2>3. Linked(x, e, D1[p]) <=> Linked(x, e, D[p])
    BY <2>2 DEF Linked
  <2>4. QED
    BY <2>3 DEF p
<1>7. \A x \in Endpoint : \A j \in 1..Len(I1[x]) : \E l \in 1..Len(I[x]) : I1[x][j] = I[x][l]
  <2>1. ASSUME NEW j \in 1..Len(I1[n]) PROVE \E l \in 1..Len(I[n]) : I1[n][j] = I[n][l]
    <3>1. Len(I1[n]) \in Nat
      BY <1>2
    <3>2. Skips(I1[n], I[n], 1)
      BY <3>1, <1>1, <1>2, SkipIs
    <3>3. QED
      BY <3>2 DEF Skips
  <2>2. ASSUME NEW x \in Endpoint, NEW j \in 1..Len(I1[x]) PROVE \E l \in 1..Len(I[x]) : I1[x][j] = I[x][l]
    <3>1. CASE x = n
      BY <3>1, <2>1
    <3>2. CASE x # n
      BY <3>2, <1>2
    <3>3. QED
      BY <3>1, <3>2
  <2>3. QED
    BY <2>2
<1>8. Base(D1, I1, P, W, s)
  <2>1. Base(D, I, P, W, s)
    BY <1>1 DEF Good
  <2>2. ASSUME NEW x \in Endpoint PROVE IsDb(D1[x]) /\ Numbered(D1[x], x, W[x])
    <3>1. CASE x = n
      BY <3>1, <1>3
    <3>2. CASE x # n
      BY <3>2, <1>1, <1>2, ModuleFacts
    <3>3. QED
      BY <3>1, <3>2
  <2>3. ASSUME NEW x \in Endpoint, NEW e \in DOMAIN D1[x].ep PROVE PidFits(D, x, e, D1[x].ep[e].pid)
    BY <1>3, <2>1, <1>2 DEF Base, Processes
  <2>4. ASSUME NEW x \in Endpoint, NEW j \in 1..Len(I1[x]) PROVE Proper(D, x, I1[x][j])
    BY <2>1, <1>7 DEF Base
  <2>5. W \in [Endpoint -> Seq(WriteType)]
    BY <2>1 DEF Base
  <2>6. QED
    BY <2>1, <2>2, <2>3, <2>4, <2>5, <1>2, <1>4, BaseStays
<1>9. Marked(I1, W, at1, mk1)
  <2>1. Marked(I, W, at, mk)
    BY <1>1 DEF Good
  <2>2. \A x \in Endpoint : at1[x][x] = at[x][x]
    BY <1>1, <1>2
  <2>3. QED
    BY <2>1, <2>2, <1>2 DEF Marked
<1>10. Keys(D1, I1, W)
  <2>1. Keys(D, I, W)
    BY <1>1 DEF Good
  <2>2. ASSUME NEW x \in Endpoint, NEW e \in DOMAIN D1[x].ep, NEW k \in OwnedBy(D1[x], e)
        PROVE  KeyFrom(e, k, D1[x].entry[k].val) /\ (x # e => WriterOf[k] # x)
    <3>1. CASE x # n
      <4>1. D1[x] = D[x]
        BY <3>1, <1>2
      <4>2. QED
        BY <4>1, <2>1, <2>2 DEF Keys
    <3>2. CASE x = n
      <4>1. CASE e \in DOMAIN d.ep /\ k \in OwnedBy(d, e) /\ d1.entry[k] = d.entry[k]
        BY <4>1, <3>2, <2>1 DEF Keys
      <4>2. CASE e = f /\ \E y \in m.entries : y.key = k /\ d1.entry[k].val = y.val
        BY <4>2, <3>2, <1>1
      <4>3. QED
        BY <4>1, <4>2, <3>2, <2>2, <1>2, TakenOwner
    <3>3. QED
      BY <3>1, <3>2
  <2>3. ASSUME NEW x \in Endpoint, NEW j \in 1..Len(I1[x]), I1[x][j].type = "update"
        PROVE  \A y \in I1[x][j].entries : KeyFrom(I1[x][j].from, y.key, y.val) /\ WriterOf[y.key] # x
    BY <2>1, <2>3, <1>7 DEF Keys
  <2>4. \A e \in Endpoint : \A i \in 1..Len(W[e]) : KeyFrom(e, W[e][i].key, W[e][i].val)
    BY <2>1 DEF Keys
  <2>5. QED
    BY <2>2, <2>3, <2>4, Zenon DEF Keys
<1>11. ASSUME NEW e \in Endpoint, e # f PROVE Softer(e, d, d1)
  <2>1. Taking(D, I, P, W, s, at, mk, n, m, f, old, d1)
    BY <1>2
  <2>2. ASSUME NEW k \in KeysOf(e) PROVE d1.entry[k].val = d.entry[k].val \/ d1.entry[k].val = Nil
    BY ONLY <2>1, <1>11, e \in Endpoint, k \in KeysOf(e), TakenKeys
  <2>3. QED
    BY <2>2 DEF Softer
<1>12. \A e \in Endpoint : Grows(W[e], W[e]) /\ Len(W[e]) \in Nat
  BY <1>1, ModuleFacts, SameGrows
<1>13. ASSUME NEW x \in Endpoint, NEW e \in Endpoint, x # e, Live(D, P, x, e)
       PROVE  at[Source(x, e)][e] <= at1[Source(x, e)][e] /\ at1[Source(x, e)][e] \in Nat
  <2>1. Source(x, e) \in Endpoint /\ at[Source(x, e)][e] \in Nat /\ at1[Source(x, e)][e] \in Nat
    <3>1. Source(x, e) \in Endpoint /\ at[Source(x, e)][e] \in Nat
      BY <1>1, PairFacts
    <3>2. \A y, g \in Endpoint : at1[y][g] \in Nat
      BY <1>2
    <3>3. QED
      BY <3>1, <3>2
  <2>2. CASE Source(x, e) # n \/ e # f
    <3>1. at1[Source(x, e)][e] = at[Source(x, e)][e]
      BY <2>1, <2>2, <1>2
    <3>2. QED
      BY <3>1, <2>1
  <2>3. CASE Source(x, e) = n /\ e = f
    <3>1. Live(D, P, n, f)
      BY <1>1, <1>13, <2>3, LiveIs
    <3>2. Advance(f, I[n], mk[n], D[n], d1, at[n][f], at1[n][f], Proc(D, f))
      BY <3>1, <1>2, TakenPair
    <3>3. at[n][f] <= at1[n][f]
      BY <3>2, <2>1, <2>3 DEF Advance
    <3>4. QED
      BY <3>3, <2>1, <2>3
  <2>4. QED
    BY <2>2, <2>3
<1>14. ASSUME NEW e \in Endpoint, e # n PROVE Source(n, e) # n
  BY <1>14, <1>1, Places DEF Source, Local
<1>15. /\ Len(I1[n]) \in Nat /\ Len(I[n]) \in Nat /\ \A j \in 1..Len(I[n]) : mk[n][j] \in Nat
       /\ Without(I1[n], I[n], 1) /\ \A j \in 1..Len(I1[n]) : mk1[n][j] = mk[n][Skip(1, j)]
  <2>1. Len(I1[n]) \in Nat
    BY <1>1, <1>2
  <2>2. \A j \in 1..Len(I[n]) : mk[n][j] \in Nat
    BY <1>1, ModuleFacts
  <2>3. QED
    BY <2>1, <2>2, <1>1, <1>2
<1>16. ASSUME NEW e \in Endpoint, e # f
       PROVE  /\ \A y, a, w, r, b : Flow(n, e, I[n], mk[n], y, a, w, r, b) => Flow(n, e, I1[n], mk1[n], y, a, w, r, b)
              /\ \A y, a, w, r, p, b : Sent(n, e, I[n], mk[n], y, a, w, r, p, b) => Sent(n, e, I1[n], mk1[n], y, a, w, r, p, b)
  BY <1>1, <1>16, <1>15, PairLess DEF Empty, About
<1>17. Copying(D1, P, W, at1)
  <2>1. SUFFICES ASSUME NEW x \in Endpoint, NEW e \in Endpoint, Live(D, P, x, e)
                 PROVE  Copy(e, D1[x], at1[x][e], W[e], Proc(D, e))
    BY <1>4, <1>5 DEF Copying
  <2>2. Copy(e, D[x], at[x][e], W[e], Proc(D, e)) /\ at[x][e] \in Nat
    BY <2>1, <1>1, LiveIs, PairFacts
  <2>3. CASE x # n
    BY <2>2, <2>3, <1>2
  <2>4. CASE x = n /\ e = f
    BY <2>1, <2>4, <1>2, TakenPair
  <2>5. CASE x = n /\ e # f
    <3>1. /\ e \in DOMAIN d1.ep <=> e \in DOMAIN d.ep
          /\ e \in DOMAIN d.ep => d1.ep[e] = d.ep[e]
      BY <2>5, <1>1 DEF IsTaken
    <3>2. ASSUME NEW k \in KeysOf(e)
          PROVE  \/ d1.entry[k] = d.entry[k]
                 \/ d1.entry[k].val = Nil /\ \A i \in 1..at[n][e] : IsLast(W[e], at[n][e], k, i) => W[e][i].val = Nil
      <4>1. CASE /\ d1.entry[k].val = Nil /\ Mentions(m, k) /\ n # e /\ n # CentralOf(e)
                 /\ e \in Modules /\ f = CentralOf(e) /\ k = PortsOf[e]
        BY <2>1, <4>1, <2>5, <1>1 DEF Live, Good, Clearing, ClearedFirst
      <4>2. QED
        BY <4>1, <2>5, <1>2, TakenKeys
    <3>3. Copy(e, d1, at[n][e], W[e], Proc(D, e))
      BY <3>1, <3>2, <2>2, <2>5, CopyCleared
    <3>4. QED
      BY <3>3, <2>5, <1>2
  <2>6. QED
    BY <2>3, <2>4, <2>5
<1>18. Owning(D1, P, W, at1)
  <2>1. SUFFICES ASSUME NEW x \in Endpoint, NEW e \in Endpoint, Forwards(D, P, x, e)
                 PROVE  Owned(e, D1[x], at1[x][e], W[e])
    BY <1>5 DEF Owning
  <2>2. CASE x # n
    BY <2>1, <2>2, <1>1, <1>2 DEF Good, Owning
  <2>3. CASE x = n /\ e = f
    BY <2>1, <2>3, <1>2, TakenOwned
  <2>4. CASE x = n /\ e # f
    <3>1. e \in DOMAIN d1.ep => e \in DOMAIN d.ep
      BY <2>4, <1>1 DEF IsTaken
    <3>2. e \in DOMAIN d1.ep => \A k \in OwnedBy(d1, e) : k \in OwnedBy(d, e) /\ d1.entry[k] = d.entry[k]
      <4>1. ASSUME e \in DOMAIN d1.ep, NEW k \in OwnedBy(d1, e) PROVE k \in OwnedBy(d, e) /\ d1.entry[k] = d.entry[k]
        BY <4>1, <2>4, <1>2, TakenOwner
      <4>2. QED
        BY <4>1
    <3>3. Owned(e, d1, at[n][e], W[e])
      BY <2>1, <2>4, <3>1, <3>2, <1>1, <1>12, OwnedStays, Zenon
    <3>4. QED
      BY <3>3, <2>4, <1>2
  <2>5. QED
    BY <2>2, <2>3, <2>4
<1>19. Flowing(D1, I1, P, W, at1, mk1)
  <2>1. SUFFICES ASSUME NEW x \in Endpoint, NEW e \in Endpoint, x # e, Live(D, P, x, e)
                 PROVE  Flow(x, e, I1[x], mk1[x], D1[x], at1[x][e], W[e], Proc(D, e), at1[Source(x, e)][e])
    BY <1>4, <1>5 DEF Flowing
  <2> DEFINE b1 == at1[Source(x, e)][e]
  <2>2. at[Source(x, e)][e] <= b1 /\ b1 \in Nat
    BY <2>1, <1>13
  <2> HIDE DEF b1
  <2>3. CASE x # n
    <3>1. Flow(x, e, I[x], mk[x], D[x], at[x][e], W[e], Proc(D, e), b1)
      BY <2>1, <2>2, <1>1, <1>12, FlowStays, SameSofter
    <3>2. QED
      BY <3>1, <2>3, <1>2 DEF b1
  <2>4. CASE x = n /\ e # f
    <3>1. Flow(n, e, I[n], mk[n], d1, at[n][e], W[e], Proc(D, e), b1)
      BY <2>1, <2>2, <2>4, <1>1, <1>11, <1>12, FlowStays
    <3>2. Flow(n, e, I1[n], mk1[n], d1, at[n][e], W[e], Proc(D, e), b1)
      BY <3>1, <2>4, <1>16, Zenon
    <3>3. QED
      BY <3>2, <2>4, <1>2 DEF b1
  <2>5. CASE x = n /\ e = f
    <3>1. /\ Advance(f, I[n], mk[n], d, d1, at[n][f], at1[n][f], Proc(D, f))
      BY <2>1, <2>5, <1>2, TakenPair
    <3>2. Flow(n, f, I[n], mk[n], d, at[n][f], W[f], Proc(D, f), at[Source(n, f)][f])
      BY <2>1, <2>5, <1>1, LiveIs
    <3>3. b1 = at[Source(n, f)][f]
      <4>1. Source(n, f) \in Endpoint /\ Source(n, f) # n
        BY <1>1, <1>14, Places
      <4>2. QED
        BY <4>1, <2>5, <1>1, <1>2 DEF b1
    <3>4. Flow(n, f, I1[n], mk1[n], d1, at1[n][f], W[f], Proc(D, f), b1)
      <4>1. SUFFICES ASSUME NEW q, q = I[n], NEW q1, q1 = I1[n], NEW h, h = mk[n], NEW h1, h1 = mk1[n],
                            NEW a, a = at[n][f], NEW a1, a1 = at1[n][f], NEW w, w = W[f], NEW r, r = Proc(D, f)
                     PROVE  Flow(n, f, q1, h1, d1, a1, w, r, b1)
        OBVIOUS
      <4>2. /\ Advance(f, q, h, d, d1, a, a1, r) /\ Flow(n, f, q, h, d, a, w, r, b1)
            /\ Len(q1) \in Nat /\ Without(q1, q, 1) /\ \A j \in 1..Len(q) : h[j] \in Nat
            /\ \A j \in 1..Len(q1) : h1[j] = h[Skip(1, j)]
        BY <4>1, <3>1, <3>2, <3>3, <1>15
      <4> HIDE DEF d, d1
      <4>3. QED
        BY <4>2, <2>2, FlowTaken
    <3>5. QED
      BY <3>4, <2>5 DEF b1
  <2>6. QED
    BY <2>3, <2>4, <2>5
<1>20. Sending(D1, I1, P, W, at1, mk1)
  <2>1. SUFFICES ASSUME NEW x \in Endpoint, NEW e \in Endpoint, x # e, Live(D, P, x, e),
                        Linked(x, e, D[Source(x, e)])
                 PROVE  Sent(x, e, I1[x], mk1[x], D1[x], at1[x][e], W[e], Proc(D, e), D1[Source(x, e)],
                             at1[Source(x, e)][e])
    BY <1>4, <1>5, <1>6 DEF Sending
  <2> DEFINE p == Source(x, e)
  <2>2. p \in Endpoint
    BY Places
  <2>3. CASE x # n /\ p = n /\ e = f
    <3>1. Sent(x, f, I[x], mk[x], D[x], at[x][f], W[f], Proc(D, f), d1, at1[n][f])
      BY <2>1, <2>3, <1>2, TakenPass
    <3>2. QED
      BY <3>1, <2>3, <1>2
  <2>4. CASE x # n /\ ~(p = n /\ e = f)
    <3>1. ASSUME NEW k \in KeysOf(e), NEW i \in 1..at[p][e], Pending(D[p], e, k, i)
          PROVE  Pending(D1[p], e, k, i)
      <4>1. CASE p # n
        BY <4>1, <3>1, <2>2, <1>2
      <4>2. CASE p = n
        <5>1. e # f /\ d.event /\ e \in DOMAIN d.ep
          BY <4>2, <2>4, <3>1 DEF Pending
        <5>2. d1.event /\ e \in DOMAIN d1.ep /\ d1.ep[e] = d.ep[e]
          BY <5>1, <1>1 DEF IsTaken
        <5>3. d1.entry[k] = d.entry[k]
          <6>1. CASE /\ Mentions(m, k) /\ n # e /\ n # CentralOf(e)
                     /\ e \in Modules /\ f = CentralOf(e) /\ k = PortsOf[e]
            BY <4>2, <6>1, Places, <2>1, <1>1 DEF Source, Live, Good, Clearing, NeverCleared
          <6>2. Taking(D, I, P, W, s, at, mk, n, m, f, old, d1)
            BY <1>2
          <6>3. QED
            BY <5>1, <6>1, <6>2, TakenKeys
        <5>4. QED
          BY <4>2, <5>2, <5>3, <3>1 DEF Pending, OwnedBy
      <4>3. QED
        BY <4>1, <4>2
    <3>2. Sent(x, e, I[x], mk[x], D[x], at[x][e], W[e], Proc(D, e), D1[p], at[p][e])
      BY <2>1, <3>1, <1>1, <1>12, SentStays, SameSofter
    <3>3. QED
      BY <3>2, <2>2, <2>4, <1>2
  <2>5. CASE x = n /\ e # f
    <3>1. p # n
      BY <2>1, <2>5, <1>14
    <3>2. Sent(n, e, I[n], mk[n], d1, at[n][e], W[e], Proc(D, e), D[p], at[p][e])
      BY <2>1, <2>5, <1>1, <1>11, <1>12, SentStays
    <3>3. Sent(n, e, I1[n], mk1[n], d1, at[n][e], W[e], Proc(D, e), D[p], at[p][e])
      BY <3>2, <2>5, <1>16, Zenon
    <3>4. QED
      BY <3>1, <3>3, <2>2, <2>5, <1>2
  <2>6. CASE x = n /\ e = f
    <3>1. p # n /\ at[p][f] \in Nat
      BY <2>1, <2>6, <1>1, <1>14, PairFacts
    <3>2. Advance(f, I[n], mk[n], d, d1, at[n][f], at1[n][f], Proc(D, f))
      BY <2>1, <2>6, <1>2, TakenPair
    <3>3. Sent(n, f, I[n], mk[n], d, at[n][f], W[f], Proc(D, f), D[p], at[p][f])
      BY <2>1, <2>6, <1>1 DEF Good, Sending
    <3>4. Sent(n, f, I1[n], mk1[n], d1, at1[n][f], W[f], Proc(D, f), D[p], at[p][f])
      <4>1. SUFFICES ASSUME NEW q, q = I[n], NEW q1, q1 = I1[n], NEW h, h = mk[n], NEW h1, h1 = mk1[n],
                            NEW a, a = at[n][f], NEW a1, a1 = at1[n][f], NEW w, w = W[f], NEW r, r = Proc(D, f),
                            NEW pd, pd = D[p], NEW b, b = at[p][f]
                     PROVE  Sent(n, f, q1, h1, d1, a1, w, r, pd, b)
        OBVIOUS
      <4>2. /\ Advance(f, q, h, d, d1, a, a1, r) /\ Sent(n, f, q, h, d, a, w, r, pd, b) /\ b \in Nat
            /\ Len(q1) \in Nat /\ Without(q1, q, 1) /\ \A j \in 1..Len(q1) : h1[j] = h[Skip(1, j)]
        BY <4>1, <3>1, <3>2, <3>3, <1>15
      <4> HIDE DEF d, d1, p
      <4>3. QED
        BY <4>2, SentTaken
    <3>5. QED
      BY <3>1, <3>4, <2>2, <2>6, <1>2
  <2>7. QED
    BY <2>3, <2>4, <2>5, <2>6
<1>21. Starting(D1, I1, P, at1)
  <2>1. SUFFICES ASSUME NEW x \in Endpoint, NEW e \in Endpoint, x # e, P[x] # 0, ~Linked(x, e, D[Source(x, e)])
                 PROVE  Nothing(e, I1[x], D1[x], at1[x][e])
    BY <1>6 DEF Starting
  <2>2. Nothing(e, I[x], D[x], at[x][e])
    BY <2>1, <1>1 DEF Good, Starting
  <2>3. CASE x # n
    BY <2>2, <2>3, <1>2
  <2>4. CASE x = n
    <3>1. e # f
      BY <2>1, <2>4, <1>1
    <3>2. Nothing(e, I[n], d1, at[n][e])
      BY <2>2, <2>4, <3>1, <1>11, NothingFrame
    <3>3. Nothing(e, I1[n], d1, at[n][e])
      BY <3>2, <1>1, <1>2, <1>15, NothingWithout
    <3>4. QED
      BY <3>1, <3>3, <2>4, <1>2
  <2>5. QED
    BY <2>3, <2>4
<1>22. Clearing(D1, I1, P, W, at1)
  BY <1>4, <1>5, TakenClearing DEF Clearing, Modules
<1>23. Notified(D1)
  <2>1. ASSUME NEW c \in Endpoint, NEW x \in Endpoint, IsCentral(c), x \in DOMAIN D1[c].ep, x # c, D1[c].ep[x].full
        PROVE  D1[c].event
    <3>1. CASE c # n
      BY <2>1, <3>1, <1>1, <1>2 DEF Good, Notified
    <3>2. CASE c = n
      BY <2>1, <3>2, <1>1 DEF IsTaken
    <3>3. QED
      BY <3>1, <3>2
  <2>2. QED
    BY <2>1 DEF Notified
<1>24. QED
  BY <1>8, <1>9, <1>10, <1>17, <1>18, <1>19, <1>20, <1>21, <1>22, <1>23 DEF Good

-----------------------------------------------------------------------------
(* A module sends what is new.                                             *)

(* p, whose database is d, tells n of e; all of it, or what has changed.   *)
Told(p, d, n, e) ==
    /\ e \in DOMAIN d.ep
    /\ \/ ~IsCentral(p) /\ n = CentralOf(p) /\ e = p
       \/ /\ IsCentral(p) /\ n # p /\ n \in DOMAIN d.ep
          /\ (Local(p, n) /\ e # n) \/ (~Local(p, n) /\ IsCentral(n) /\ Local(p, e))
Wide(p, d, n) == IsCentral(p) /\ d.ep[n].full
Part(p, d, n, e) == IF Wide(p, d, n) THEN Full(d, e) ELSE Changed(d, e)

LEMMA ToldIs ==
    ASSUME NEW p \in Endpoint, NEW n \in Endpoint, NEW e \in Endpoint, NEW d, Told(p, d, n, e)
    PROVE  /\ n # e /\ Source(n, e) = p /\ n # p
           /\ (Local(n, e) \/ IsCentral(n)) => Local(p, e)
           /\ Direct(n, e) => e = p /\ ~IsCentral(p)
<1>1. CASE ~IsCentral(p) /\ n = CentralOf(p) /\ e = p
  BY <1>1, Places DEF Local, Source
<1>2. CASE IsCentral(p) /\ n # p /\ Local(p, n) /\ e # n
  BY <1>2, Places DEF Source, Direct, Local
<1>3. CASE IsCentral(p) /\ n # p /\ ~Local(p, n) /\ IsCentral(n) /\ Local(p, e)
  BY <1>3, Places DEF Local, Source, Direct
<1>4. QED
  BY <1>1, <1>2, <1>3 DEF Told

LEMMA ToldWhen ==
    ASSUME NEW p \in Endpoint, NEW n \in Endpoint, NEW e \in Endpoint, NEW d, n # e, Source(n, e) = p,
           e \in DOMAIN d.ep, Direct(n, e) \/ n \in DOMAIN d.ep
    PROVE  Told(p, d, n, e)
<1>1. CASE ~IsCentral(n)
  BY <1>1, Places DEF Source, Direct, Told
<1>2. CASE IsCentral(n) /\ Local(n, e)
  BY <1>2, Places DEF Source, Told
<1>3. CASE IsCentral(n) /\ ~Local(n, e)
  BY <1>3, Places DEF Source, Direct, Local, Told
<1>4. QED
  BY <1>1, <1>2, <1>3

(* m is what d has of e, of the entries K. *)
IsNews(m, d, e, K) ==
    /\ m \in Message /\ m.type = "update" /\ m.from = e /\ m.pid = d.ep[e].pid
    /\ \A x \in m.entries : x.key \in K /\ x.seq = d.entry[x.key].seq /\ x.val = d.entry[x.key].val
    /\ \A k \in K : \E x \in m.entries : x.key = k /\ x.seq = d.entry[k].seq
    /\ \A x, y \in m.entries : x.key = y.key => x = y

LEMMA UpdateNews ==
    ASSUME NEW d, IsDb(d), NEW e \in DOMAIN d.ep, NEW K, K \subseteq Key
    PROVE  IsNews(Update(d, e, K), d, e, K)
<1> DEFINE E == Entries(d, K)
<1>1. \A k \in Key : d.entry[k].seq \in Nat /\ d.entry[k].val \in Val
  BY RecordIs
<1>2. e \in Endpoint /\ d.ep[e].pid \in Nat
  BY RecordIs
<1>3. ASSUME NEW x \in E
      PROVE  /\ x.key \in K /\ x.seq = d.entry[x.key].seq /\ x.val = d.entry[x.key].val
             /\ x = [key |-> x.key, seq |-> x.seq, val |-> x.val]
             /\ x \in [key : Key, seq : Nat, val : Val]
  BY <1>1 DEF Entries
<1>4. ASSUME NEW k \in K PROVE \E x \in E : x.key = k /\ x.seq = d.entry[k].seq
  <2>1. [key |-> k, seq |-> d.entry[k].seq, val |-> d.entry[k].val] \in E
    BY DEF Entries
  <2>2. QED
    BY <2>1
<1> HIDE DEF E
<1>5. E \subseteq [key : Key, seq : Nat, val : Val]
  BY <1>3
<1>6. \A x, y \in E : x.key = y.key => x = y
  BY <1>3
<1>7. SUFFICES ASSUME NEW m, m = [type |-> "update", from |-> e, pid |-> d.ep[e].pid, entries |-> E]
               PROVE  IsNews(m, d, e, K)
  BY DEF Update, E
<1>8. m \in UpdateType
  BY <1>7, <1>2, <1>5 DEF UpdateType
<1>9. m \in Message /\ m.type = "update" /\ m.from = e /\ m.pid = d.ep[e].pid /\ m.entries = E
  BY <1>7, <1>8 DEF Message, UpdateType
<1>10. QED
  BY <1>3, <1>4, <1>6, <1>9 DEF IsNews

LEMMA PayloadsAre ==
    ASSUME NEW d, IsDb(d), NEW n, NEW E, E \subseteq DOMAIN d.ep, NEW z, z = PayloadsFor(d, n, E),
           NEW K, K \in [E -> SUBSET Key], \A e \in E : K[e] = IF d.ep[n].full THEN Full(d, e) ELSE Changed(d, e)
    PROVE  /\ z \in Seq(Message)
           /\ \A j \in 1..Len(z) : \E e \in E : IsNews(z[j], d, e, K[e])
           /\ \A e \in E : (d.ep[n].full \/ Changed(d, e) # {}) => \E j \in 1..Len(z) : IsNews(z[j], d, e, K[e])
<1> DEFINE about == IF d.ep[n].full THEN E ELSE {e \in E : Changed(d, e) # {}}
           g == [e \in about |-> Update(d, e, K[e])]
           S == {g[e] : e \in about}
<1>1. about \subseteq E /\ IsFiniteSet(about)
  BY RecordIs, MnemosynthAssumption, FS_Subset
<1>2. \A e \in E : IsNews(Update(d, e, K[e]), d, e, K[e])
  BY UpdateNews
<1>3. \A e \in about : g[e] = Update(d, e, K[e]) /\ IsNews(g[e], d, e, K[e]) /\ g[e] \in Message
  BY <1>1, <1>2 DEF IsNews
<1>4. z = SetToSeq(S)
  <2>1. {Update(d, e, IF d.ep[n].full THEN Full(d, e) ELSE Changed(d, e)) : e \in about} = {Update(d, e, K[e]) : e \in about}
    BY <1>1
  <2>2. S = {Update(d, e, K[e]) : e \in about}
    OBVIOUS
  <2>3. QED
    BY <2>1, <2>2, Zenon DEF PayloadsFor
<1>5. IsFiniteSet(S) /\ S \subseteq Message
  <2>1. g \in [about -> Message]
    BY <1>3
  <2> HIDE DEF about, g
  <2>2. S = {g[x] : x \in about}
    OBVIOUS
  <2>3. IsFiniteSet(S)
    BY <2>1, <2>2, <1>1, FiniteImage
  <2>4. QED
    BY <2>3, <2>1
<1> HIDE DEF about, g
<1>6. /\ z \in Seq(S) /\ Len(z) \in Nat /\ \A x \in S : \E j \in 1..Len(z) : z[j] = x
  <2> HIDE DEF S
  <2>1. QED
    BY <1>4, <1>5, SetToSeqIs
<1>7. z \in Seq(Message)
  BY <1>5, <1>6
<1>8. ASSUME NEW j \in 1..Len(z) PROVE \E e \in E : IsNews(z[j], d, e, K[e])
  BY <1>6, <1>1, <1>3
<1>9. ASSUME NEW e \in E, d.ep[n].full \/ Changed(d, e) # {} PROVE \E j \in 1..Len(z) : IsNews(z[j], d, e, K[e])
  <2>1. e \in about
    BY <1>9 DEF about
  <2>2. PICK j \in 1..Len(z) : z[j] = g[e]
    BY <2>1, <1>6
  <2>3. QED
    BY <2>1, <2>2, <1>3
<1>10. QED
  BY <1>7, <1>8, <1>9

(* What n gets when p, whose database is d and whose copies are at A, sends. *)
Delivered(q1, m1, q, m, p, d, n, A) ==
    /\ Follows(q1, q) /\ \A j \in 1..Len(q) : m1[j] = m[j]
    /\ \A j \in 1..Len(q1) : j > Len(q) =>
          \E e \in Endpoint : Told(p, d, n, e) /\ IsNews(q1[j], d, e, Part(p, d, n, e)) /\ m1[j] = A[e]
Complete(q1, q, p, d, n) ==
    \A e \in Endpoint : (Told(p, d, n, e) /\ (Wide(p, d, n) \/ Changed(d, e) # {})) =>
        \E j \in Len(q) + 1..Len(q1) : About(q1[j], e)
Spreading(D, I, P, W, s, at, mk, p, D1, I1, mk1) ==
    /\ Good(D, I, P, W, s, at, mk) /\ p \in Endpoint /\ P[p] # 0
    /\ Total(D1) /\ IsSpread(D1[p], p, D[p]) /\ \A n \in Endpoint : n # p => D1[n] = D[n]
    /\ I1 \in [Endpoint -> Seq(Message)] /\ mk1 \in [Endpoint -> Seq(Nat)]
    /\ \A n \in Endpoint : Len(mk1[n]) = Len(I1[n]) /\ Delivered(I1[n], mk1[n], I[n], mk[n], p, D[p], n, at[p])
    /\ \A n \in Endpoint : IF P[n] = 0 THEN Len(I1[n]) = Len(I[n]) ELSE Complete(I1[n], I[n], p, D[p], n)

LEMMA PartIs ==
    ASSUME NEW p, NEW d, NEW n, NEW e, NEW k \in Part(p, d, n, e)
    PROVE  k \in OwnedBy(d, e) /\ k \in Key /\ (Wide(p, d, n) => d.entry[k].val # Nil)
BY DEF Part, Full, Changed, OwnedBy

LEMMA SourceOther ==
    ASSUME NEW n \in Endpoint, NEW e \in Endpoint, n # e
    PROVE  Source(n, e) # n
<1>1. CASE ~IsCentral(n)
  BY <1>1, Places DEF Source
<1>2. CASE IsCentral(n) /\ Local(n, e)
  BY <1>2 DEF Source
<1>3. CASE IsCentral(n) /\ ~Local(n, e)
  BY Places, <1>3 DEF Source
<1>4. QED
  BY <1>1, <1>2, <1>3

LEMMA SpreadSame ==
    ASSUME NEW d, NEW d1, NEW p, IsDb(d), IsSpread(d1, p, d)
    PROVE  /\ \A k \in Key : d1.entry[k] = d.entry[k] \/ (d.entry[k].val = Nil /\ d1.entry[k].val = Nil)
           /\ \A e \in DOMAIN d.ep : \A k \in OwnedBy(d1, e) :
                 k \in OwnedBy(d, e) /\ d1.entry[k] = d.entry[k] /\ k \notin Stubs(p, d)
           /\ \A k \in Key : d1.entry[k].has => d1.entry[k] = d.entry[k]
           /\ \A k \in Key : d1.entry[k].seq = d.entry[k].seq \/ d1.entry[k].seq = 0
<1>1. \A k \in Key : d1.entry[k] = d.entry[k] \/ (k \in Stubs(p, d) /\ d1.entry[k] = NoEntry)
  BY DEF IsSpread
<1>2. \A k \in Key : k \in Stubs(p, d) => d1.entry[k] = NoEntry /\ d.entry[k].val = Nil
  BY DEF IsSpread
<1>3. NoEntry.val = Nil /\ ~NoEntry.has /\ NoEntry.seq = 0
  BY NoEntryIs DEF NoEntry
<1>4. \A k \in Key : d1.entry[k].has => d1.entry[k] = d.entry[k] /\ k \notin Stubs(p, d)
  BY <1>1, <1>2, <1>3
<1>5. ASSUME NEW e \in DOMAIN d.ep, NEW k \in OwnedBy(d1, e)
      PROVE  k \in OwnedBy(d, e) /\ d1.entry[k] = d.entry[k] /\ k \notin Stubs(p, d)
  BY <1>5, <1>4 DEF OwnedBy, IsSpread
<1>6. \A k \in Key : d1.entry[k] = d.entry[k] \/ (d.entry[k].val = Nil /\ d1.entry[k].val = Nil)
  BY <1>1, <1>2, <1>3
<1>7. \A k \in Key : d1.entry[k].seq = d.entry[k].seq \/ d1.entry[k].seq = 0
  BY <1>1, <1>3
<1>8. QED
  BY <1>4, <1>5, <1>6, <1>7

LEMMA SpreadFacts ==
    ASSUME NEW D, NEW I, NEW P, NEW W, NEW s, NEW at, NEW mk, NEW p, NEW D1, NEW I1, NEW mk1,
           Spreading(D, I, P, W, s, at, mk, p, D1, I1, mk1)
    PROVE  /\ Good(D, I, P, W, s, at, mk) /\ p \in Endpoint /\ P[p] # 0 /\ IsDb(D[p]) /\ p \in DOMAIN D[p].ep
           /\ \A n \in Endpoint : /\ DOMAIN D1[n].ep = DOMAIN D[n].ep /\ IsDb(D1[n])
                                  /\ Len(I1[n]) \in Nat /\ Len(I[n]) \in Nat /\ Len(I[n]) <= Len(I1[n])
           /\ \A n \in Endpoint : \A e \in DOMAIN D[n].ep :
                 /\ D1[n].ep[e].id = D[n].ep[e].id /\ D1[n].ep[e].recv = D[n].ep[e].recv
                 /\ D1[n].ep[e].pid = D[n].ep[e].pid
           /\ \A n \in Endpoint : \A k \in Key :
                 D1[n].entry[k] = D[n].entry[k] \/ (D[n].entry[k].val = Nil /\ D1[n].entry[k].val = Nil)
           /\ \A n \in Endpoint : \A e \in DOMAIN D[n].ep : \A k \in OwnedBy(D1[n], e) :
                 k \in OwnedBy(D[n], e) /\ D1[n].entry[k] = D[n].entry[k]
           /\ \A n \in Endpoint : Proc(D1, n) = Proc(D, n)
           /\ \A n, e \in Endpoint : Softer(e, D[n], D1[n])
<1>1. Good(D, I, P, W, s, at, mk) /\ p \in Endpoint /\ P[p] # 0 /\ IsSpread(D1[p], p, D[p])
  BY DEF Spreading
<1>2. \A n \in Endpoint : n # p => D1[n] = D[n]
  BY DEF Spreading
<1>3. \A n \in Endpoint : IsDb(D[n]) /\ n \in DOMAIN D[n].ep /\ Len(I[n]) \in Nat
  BY <1>1, ModuleFacts DEF Numbered
<1>4. \A n \in Endpoint : Len(I1[n]) \in Nat /\ Len(I[n]) <= Len(I1[n])
  BY DEF Spreading, Delivered, Follows
<1>5. DOMAIN D1[p].ep = DOMAIN D[p].ep /\ IsDb(D1[p])
  BY <1>1 DEF IsSpread
<1>6. \A e \in DOMAIN D[p].ep : /\ D1[p].ep[e].id = D[p].ep[e].id /\ D1[p].ep[e].recv = D[p].ep[e].recv
                                /\ D1[p].ep[e].pid = D[p].ep[e].pid
  BY <1>1 DEF IsSpread
<1>7. \A n \in Endpoint : /\ DOMAIN D1[n].ep = DOMAIN D[n].ep /\ IsDb(D1[n])
  BY <1>2, <1>3, <1>5
<1>8. \A n \in Endpoint : \A e \in DOMAIN D[n].ep :
                 /\ D1[n].ep[e].id = D[n].ep[e].id /\ D1[n].ep[e].recv = D[n].ep[e].recv
                 /\ D1[n].ep[e].pid = D[n].ep[e].pid
  BY <1>2, <1>6
<1>9. /\ \A k \in Key : D1[p].entry[k] = D[p].entry[k] \/ (D[p].entry[k].val = Nil /\ D1[p].entry[k].val = Nil)
      /\ \A e \in DOMAIN D[p].ep : \A k \in OwnedBy(D1[p], e) : k \in OwnedBy(D[p], e) /\ D1[p].entry[k] = D[p].entry[k]
  BY <1>1, <1>3, SpreadSame
<1>10. \A n \in Endpoint : \A k \in Key :
                 D1[n].entry[k] = D[n].entry[k] \/ (D[n].entry[k].val = Nil /\ D1[n].entry[k].val = Nil)
  BY <1>2, <1>9
<1>11. ASSUME NEW n \in Endpoint, NEW e \in DOMAIN D[n].ep, NEW k \in OwnedBy(D1[n], e)
       PROVE  k \in OwnedBy(D[n], e) /\ D1[n].entry[k] = D[n].entry[k]
  BY <1>9, <1>11, <1>2
<1>12. \A n \in Endpoint : Proc(D1, n) = Proc(D, n)
  BY <1>3, <1>8 DEF Proc
<1>13. \A n, e \in Endpoint : Softer(e, D[n], D1[n])
  BY <1>10 DEF Softer, KeysOf
<1>14. QED
  BY <1>1, <1>3, <1>4, <1>7, <1>8, <1>10, <1>11, <1>12, <1>13

(* A new message about e. *)
LEMMA NewIs ==
    ASSUME NEW D, NEW I, NEW P, NEW W, NEW s, NEW at, NEW mk, NEW p, NEW D1, NEW I1, NEW mk1,
           Spreading(D, I, P, W, s, at, mk, p, D1, I1, mk1),
           NEW n \in Endpoint, NEW j \in 1..Len(I1[n]), j > Len(I[n])
    PROVE  /\ P[n] # 0 /\ I1[n][j].from \in Endpoint /\ I1[n][j].type = "update"
           /\ Told(p, D[p], n, I1[n][j].from)
           /\ IsNews(I1[n][j], D[p], I1[n][j].from, Part(p, D[p], n, I1[n][j].from))
           /\ mk1[n][j] = at[p][I1[n][j].from]
<1>1. PICK e \in Endpoint : /\ Told(p, D[p], n, e) /\ IsNews(I1[n][j], D[p], e, Part(p, D[p], n, e))
                            /\ mk1[n][j] = at[p][e]
  BY DEF Spreading, Delivered
<1>2. I1[n][j].from = e /\ I1[n][j].type = "update"
  BY <1>1 DEF IsNews
<1>3. Len(I1[n]) \in Nat /\ Len(I[n]) \in Nat
  BY SpreadFacts
<1>4. P[n] # 0
  BY <1>3 DEF Spreading
<1>5. QED
  BY <1>1, <1>2, <1>4

LEMMA SpreadNow ==
    ASSUME NEW D, NEW I, NEW P, NEW W, NEW s, NEW at, NEW mk, Good(D, I, P, W, s, at, mk),
           NEW p \in Endpoint, NEW n \in Endpoint, NEW e \in Endpoint, Told(p, D[p], n, e), Live(D, P, n, e)
    PROVE  IsNow(D[p].ep[e].pid, Proc(D, e))
<1>1. e \in DOMAIN D[p].ep /\ (e = p \/ (IsCentral(p) /\ n # p /\ (Local(p, n) \/ (IsCentral(n) /\ Local(p, e)))))
  BY DEF Told
<1>2. PidFits(D, p, e, D[p].ep[e].pid)
  BY <1>1 DEF Good, Base, Processes
<1>3. CASE e = p
  BY <1>3 DEF IsNow, Proc
<1>4. CASE IsCentral(p) /\ Local(p, e)
  BY <1>4, <1>2 DEF PidFits, Direct, IsNow
<1>5. CASE IsCentral(p) /\ ~Local(p, e) /\ n # p /\ Local(p, n)
  <2>1. ~IsCentral(n)
    BY <1>5, Places
  <2>2. ~Local(n, e)
    BY <1>5 DEF Local
  <2>3. Proc(D, e) = 1
    BY <2>1, <2>2 DEF Live
  <2>4. D[p].ep[e].pid <= 1 /\ D[p].ep[e].pid \in Nat
    BY ModuleFacts, <1>1, RecordIs, <1>2, <2>3 DEF PidFits
  <2>5. QED
    BY <2>3, <2>4 DEF IsNow
<1>6. QED
  BY <1>1, <1>3, <1>4, <1>5

(* p is where n hears of e, and tells it: the messages about e of which    *)
(* l > Len(q) are new say all that e wrote and n was not told before.      *)
Telling(D, I, P, W, s, at, mk, p, D1, I1, mk1, n, e) ==
    /\ Spreading(D, I, P, W, s, at, mk, p, D1, I1, mk1)
    /\ n \in Endpoint /\ e \in Endpoint /\ n # e /\ Live(D, P, n, e) /\ Source(n, e) = p

LEMMA TellingNews ==
    ASSUME NEW D, NEW I, NEW P, NEW W, NEW s, NEW at, NEW mk, NEW p, NEW D1, NEW I1, NEW mk1, NEW n, NEW e,
           Telling(D, I, P, W, s, at, mk, p, D1, I1, mk1, n, e),
           NEW l \in 1..Len(I1[n]), l > Len(I[n]), About(I1[n][l], e)
    PROVE  /\ Told(p, D[p], n, e) /\ IsNews(I1[n][l], D[p], e, Part(p, D[p], n, e)) /\ mk1[n][l] = at[p][e]
           /\ Comes(I1[n], e, Proc(D, e), l)
<1>1. Spreading(D, I, P, W, s, at, mk, p, D1, I1, mk1) /\ n \in Endpoint /\ e \in Endpoint /\ Live(D, P, n, e)
  BY DEF Telling
<1>2. I1[n][l].from = e
  BY DEF About
<1>3. Told(p, D[p], n, e) /\ IsNews(I1[n][l], D[p], e, Part(p, D[p], n, e)) /\ mk1[n][l] = at[p][e]
  BY <1>1, <1>2, NewIs
<1>4. Good(D, I, P, W, s, at, mk) /\ p \in Endpoint
  BY <1>1, SpreadFacts
<1>5. IsNow(D[p].ep[e].pid, Proc(D, e))
  BY <1>1, <1>3, <1>4, SpreadNow
<1>6. I1[n][l].pid = D[p].ep[e].pid
  BY <1>3 DEF IsNews
<1>7. QED
  BY <1>3, <1>5, <1>6 DEF Comes

LEMMA TellingFacts ==
    ASSUME NEW D, NEW I, NEW P, NEW W, NEW s, NEW at, NEW mk, NEW p, NEW D1, NEW I1, NEW mk1, NEW n, NEW e,
           Telling(D, I, P, W, s, at, mk, p, D1, I1, mk1, n, e)
    PROVE  /\ p \in Endpoint /\ n \in Endpoint /\ e \in Endpoint /\ n # p /\ IsDb(D[p]) /\ D1[n] = D[n]
           /\ Live(D, P, p, e) /\ Copy(e, D[p], at[p][e], W[e], Proc(D, e)) /\ Owned(e, D[p], at[p][e], W[e])
           /\ at[n][e] \in Nat /\ at[p][e] \in Nat /\ at[n][e] <= at[p][e] /\ at[p][e] <= Len(W[e]) /\ Len(W[e]) \in Nat
           /\ Flow(n, e, I[n], mk[n], D[n], at[n][e], W[e], Proc(D, e), at[p][e])
           /\ Len(I[n]) \in Nat /\ Len(I1[n]) \in Nat /\ Follows(I1[n], I[n])
           /\ \A j \in 1..Len(I[n]) : mk1[n][j] = mk[n][j]
           /\ \A j \in 1..Len(I[n]) : mk[n][j] \in Nat
           /\ Linked(n, e, D[p]) => Sent(n, e, I[n], mk[n], D[n], at[n][e], W[e], Proc(D, e), D[p], at[p][e])
           /\ ~Linked(n, e, D[p]) => Nothing(e, I[n], D[n], at[n][e])
<1>1. Spreading(D, I, P, W, s, at, mk, p, D1, I1, mk1) /\ n \in Endpoint /\ e \in Endpoint /\ Live(D, P, n, e) /\ n # e
      /\ Source(n, e) = p
  BY DEF Telling
<1>2. Good(D, I, P, W, s, at, mk) /\ p \in Endpoint /\ IsDb(D[p]) /\ Len(I[n]) \in Nat /\ Len(I1[n]) \in Nat
  BY <1>1, SpreadFacts
<1>3. n # p /\ D1[n] = D[n]
  BY <1>1, SourceOther DEF Spreading
<1>4. Follows(I1[n], I[n]) /\ \A j \in 1..Len(I[n]) : mk1[n][j] = mk[n][j]
  BY <1>1 DEF Spreading, Delivered
<1>5. /\ Live(D, P, p, e) /\ Copy(e, D[p], at[p][e], W[e], Proc(D, e)) /\ Owned(e, D[p], at[p][e], W[e])
      /\ at[n][e] <= at[p][e] /\ at[p][e] <= Len(W[e])
      /\ Flow(n, e, I[n], mk[n], D[n], at[n][e], W[e], Proc(D, e), at[p][e])
  BY <1>1, <1>2, LiveIs
<1>6. at[n][e] \in Nat /\ at[p][e] \in Nat
  BY <1>1, <1>2, PairFacts
<1>7. Len(W[e]) \in Nat /\ \A j \in 1..Len(I[n]) : mk[n][j] \in Nat
  BY <1>1, <1>2, ModuleFacts
<1>8. Linked(n, e, D[p]) => Sent(n, e, I[n], mk[n], D[n], at[n][e], W[e], Proc(D, e), D[p], at[p][e])
  BY <1>1, <1>2 DEF Good, Sending
<1>9. ~Linked(n, e, D[p]) => Nothing(e, I[n], D[n], at[n][e])
  BY <1>1, <1>2 DEF Good, Starting, Live
<1>10. QED
  BY <1>1, <1>2, <1>3, <1>4, <1>5, <1>6, <1>7, <1>8, <1>9

LEMMA TellingCovers ==
    ASSUME NEW D, NEW I, NEW P, NEW W, NEW s, NEW at, NEW mk, NEW p, NEW D1, NEW I1, NEW mk1, NEW n, NEW e,
           Telling(D, I, P, W, s, at, mk, p, D1, I1, mk1, n, e), Told(p, D[p], n, e),
           NEW q, q = I[n], NEW q1, q1 = I1[n], NEW w, w = W[e], NEW r, r = Proc(D, e), NEW b, b = at[p][e],
           NEW k \in KeysOf(e), NEW i \in 1..b, IsLast(w, b, k, i), NEW h \in Len(q)..Len(q1),
           (Wide(p, D[p], n) \/ Changed(D[p], e) # {}) => \E l \in Len(q) + 1..h : About(q1[l], e)
    PROVE  Covered(n, e, q1, mk1[n], D[n], at[n][e], w, r, k, i, h)
<1> DEFINE Cov(z, m, j) == Covered(n, e, z, m, D[n], at[n][e], w, r, k, i, j)
           pd == D[p]
<1>1. /\ p \in Endpoint /\ n \in Endpoint /\ e \in Endpoint /\ n # p /\ IsDb(D[p])
      /\ Copy(e, pd, b, w, r) /\ Owned(e, pd, b, w) /\ b \in Nat /\ at[n][e] \in Nat
      /\ Len(q) \in Nat /\ Len(q1) \in Nat /\ Follows(q1, q)
      /\ \A j \in 1..Len(q) : mk1[n][j] = mk[n][j]
      /\ Linked(n, e, pd) => Sent(n, e, q, mk[n], D[n], at[n][e], w, r, pd, b)
      /\ ~Linked(n, e, pd) => Nothing(e, q, D[n], at[n][e])
  BY TellingFacts
<1>2. e \in DOMAIN pd.ep /\ k \in Key /\ (Direct(n, e) => ~IsCentral(p))
  BY <1>1, ToldIs DEF Told, KeysOf
<1>3. ASSUME NEW l \in Len(q) + 1..h, About(q1[l], e)
      PROVE  /\ Comes(q1, e, r, l) /\ mk1[n][l] = b /\ l \in 1..h
             /\ IsNews(q1[l], pd, e, Part(p, pd, n, e))
  <2>1. l \in 1..Len(I1[n]) /\ l > Len(I[n]) /\ About(I1[n][l], e) /\ l \in 1..h
    BY <1>1, <1>3
  <2>2. /\ IsNews(I1[n][l], D[p], e, Part(p, D[p], n, e)) /\ mk1[n][l] = at[p][e]
        /\ Comes(I1[n], e, Proc(D, e), l)
    BY <2>1, TellingNews
  <2>3. QED
    BY <2>1, <2>2
<1>4. ASSUME NEW l \in Len(q) + 1..h, About(q1[l], e), Mentions(q1[l], k)
      PROVE  k \in Part(p, pd, n, e)
  BY <1>3, <1>4 DEF IsNews, Mentions
<1>5. ASSUME \E l \in Len(q) + 1..h : About(q1[l], e), k \in Part(p, pd, n, e), pd.entry[k].seq = i
      PROVE  Cov(q1, mk1[n], h)
  BY <1>5, <1>3 DEF IsNews, Gives, Covered
<1>6. CASE Wide(p, pd, n)
  <2>1. ~Linked(n, e, pd)
    BY <1>6, <1>2 DEF Wide, Linked
  <2>2. /\ at[n][e] = 0 /\ \A j \in 1..Len(q) : ~About(q[j], e)
        /\ D[n].entry[k].val = Nil
    BY <2>1, <1>1 DEF Nothing
  <2>3. /\ pd.entry[k].val = w[i].val
        /\ w[i].val # Nil => pd.entry[k].owner = pd.ep[e].id /\ pd.entry[k].seq = i /\ pd.entry[k].has
    <3>1. Copy(e, pd, b, w, r)
      BY <1>1
    <3>2. /\ pd.entry[k].val = w[i].val
          /\ w[i].val # Nil => pd.entry[k] = [owner |-> pd.ep[e].id, seq |-> i, val |-> w[i].val, has |-> TRUE]
      BY <3>1, Zenon DEF Copy
    <3>3. QED
      BY <3>2
  <2>4. CASE w[i].val # Nil
    BY <2>3, <2>4, <1>2, <1>5, <1>6 DEF Full, OwnedBy, Part
  <2>5. CASE w[i].val = Nil
    <3>1. k \notin Part(p, pd, n, e)
      BY <2>3, <2>5, <1>6 DEF Part, Full
    <3>2. ASSUME NEW l \in 1..h, About(q1[l], e) PROVE l \in Len(q) + 1..h
      BY <2>2, <1>1, <3>2 DEF Follows
    <3>3. \A l \in 1..h : About(q1[l], e) => ~Mentions(q1[l], k)
      BY <3>1, <3>2, <1>4
    <3>4. \A l \in 1..h : Comes(q1, e, r, l) => mk1[n][l] = b
      BY <3>2, <1>3 DEF Comes
    <3>5. \A l \in 1..h : Comes(q1, e, r, l) => mk1[n][l] = 0 \/ i <= mk1[n][l]
      BY <3>4, <1>1
    <3>6. ~Direct(n, e)
      BY <2>1 DEF Linked
    <3>7. Unheard(n, e, q1, mk1[n], D[n], at[n][e], w, r, k, i, h)
      BY <3>3, <3>5, <3>6, <2>2, <2>5 DEF Unheard
    <3>8. QED
      BY <3>7 DEF Covered
  <2>6. QED
    BY <2>4, <2>5
<1>7. CASE ~Wide(p, pd, n)
  <2>1. Linked(n, e, pd)
    BY <1>7, <1>1, Places DEF Wide, Linked, Told, Direct
  <2>2. Cov(q, mk[n], Len(q)) \/ Pending(pd, e, k, i)
    BY <2>1, <1>1 DEF Sent
  <2>3. Part(p, pd, n, e) = Changed(pd, e)
    BY <1>7 DEF Part
  <2>4. CASE k \in Changed(pd, e)
    <3>1. k \in OwnedBy(pd, e)
      BY <2>4 DEF Changed
    <3>2. IsLast(w, b, k, pd.entry[k].seq)
      BY <3>1, <1>1, <1>2 DEF Owned
    <3>3. pd.entry[k].seq = i
      BY <3>2, <1>1, LastIsOne
    <3>4. QED
      BY <3>3, <2>3, <2>4, <1>5
  <2>5. CASE k \notin Changed(pd, e)
    <3>1. ~Pending(pd, e, k, i)
      BY <2>5 DEF Pending, Changed
    <3>2. Cov(q, mk[n], Len(q))
      BY <3>1, <2>2
    <3>3. \A l \in Len(q) + 1..h : About(q1[l], e) => ~Mentions(q1[l], k)
      BY <2>3, <2>5, <1>4
    <3>4. \A l \in Len(q) + 1..h : About(q1[l], e) => mk1[n][l] = b
      BY <1>3
    <3>5. \A l \in Len(q) + 1..h : About(q1[l], e) =>
             ~Mentions(q1[l], k) /\ (Comes(q1, e, r, l) => mk1[n][l] = 0 \/ i <= mk1[n][l])
      BY <3>3, <3>4, <1>1
    <3>6. Len(q) \in 0..Len(q)
      BY <1>1
    <3> HIDE DEF pd
    <3>7. QED
      BY <3>2, <3>5, <3>6, <1>1, CoveredLater
  <2>6. QED
    BY <2>4, <2>5
<1>8. QED
  BY <1>6, <1>7

LEMMA SpreadFlow ==
    ASSUME NEW D, NEW I, NEW P, NEW W, NEW s, NEW at, NEW mk, NEW p, NEW D1, NEW I1, NEW mk1, NEW n, NEW e,
           Telling(D, I, P, W, s, at, mk, p, D1, I1, mk1, n, e),
           NEW q, q = I[n], NEW q1, q1 = I1[n], NEW w, w = W[e], NEW r, r = Proc(D, e), NEW b, b = at[p][e],
           NEW m, m = mk[n], NEW m1, m1 = mk1[n], NEW a, a = at[n][e], NEW d, d = D[n]
    PROVE  Flow(n, e, q1, m1, d, a, w, r, b)
<1>1. /\ p \in Endpoint /\ n \in Endpoint /\ e \in Endpoint
      /\ Owned(e, D[p], b, w) /\ b \in Nat /\ a \in Nat /\ a <= b
      /\ Flow(n, e, q, m, d, a, w, r, b)
      /\ Len(q) \in Nat /\ Len(q1) \in Nat /\ Follows(q1, q)
      /\ \A j \in 1..Len(q) : m1[j] = m[j] /\ m[j] \in Nat
  BY TellingFacts
<1>2. \A j \in 1..Len(q1) : (j > Len(q) /\ About(q1[j], e)) =>
          /\ Told(p, D[p], n, e) /\ IsNews(q1[j], D[p], e, Part(p, D[p], n, e)) /\ m1[j] = b /\ Comes(q1, e, r, j)
  BY TellingNews
<1>3. ASSUME NEW j \in 1..Len(q1), j <= Len(q)
      PROVE  /\ j \in 1..Len(q) /\ q1[j] = q[j] /\ m1[j] = m[j] /\ (Comes(q1, e, r, j) <=> Comes(q, e, r, j))
             /\ (About(q1[j], e) <=> About(q[j], e))
  BY <1>1, <1>3 DEF Follows, Comes
<1>4. Whole(n, e, q, m, d, a, w, r, b) /\ InOrder(e, q, m, r) /\ (a > 0 => \A j \in 1..Len(q) : About(q[j], e) => Comes(q, e, r, j))
  BY <1>1 DEF Flow
<1>5. ASSUME NEW j \in 1..Len(q1), j > Len(q), Comes(q1, e, r, j)
      PROVE  /\ a <= m1[j] /\ m1[j] <= b
             /\ \A x \in q1[j].entries :
                  /\ x.seq \in 1..m1[j]
                  /\ x.key \in KeysOf(e) => IsLast(w, m1[j], x.key, x.seq) /\ x.val = w[x.seq].val
             /\ \A k \in KeysOf(e), i \in 1..m1[j] :
                  IsLast(w, m1[j], k, i) => Covered(n, e, q1, m1, d, a, w, r, k, i, j)
  <2>1. /\ Told(p, D[p], n, e) /\ IsNews(q1[j], D[p], e, Part(p, D[p], n, e)) /\ m1[j] = b /\ About(q1[j], e)
    BY <1>2, <1>5 DEF Comes
  <2>2. ASSUME NEW x \in q1[j].entries
        PROVE  x.seq \in 1..b /\ (x.key \in KeysOf(e) => IsLast(w, b, x.key, x.seq) /\ x.val = w[x.seq].val)
    <3>1. x.key \in Part(p, D[p], n, e) /\ x.seq = D[p].entry[x.key].seq /\ x.val = D[p].entry[x.key].val
      BY <2>1 DEF IsNews
    <3>2. x.key \in OwnedBy(D[p], e) /\ e \in DOMAIN D[p].ep
      BY <3>1, <2>1, PartIs DEF Told
    <3>3. QED
      BY <3>1, <3>2, <1>1 DEF Owned
  <2>3. ASSUME NEW k \in KeysOf(e), NEW i \in 1..b, IsLast(w, b, k, i)
        PROVE  Covered(n, e, q1, m1, d, a, w, r, k, i, j)
    <3>1. j \in Len(q)..Len(q1) /\ j \in Len(q) + 1..j
      BY <1>1, <1>5
    <3>2. \E l \in Len(q) + 1..j : About(q1[l], e)
      BY <3>1, <2>1
    <3>3. QED
      BY <3>1, <3>2, <2>1, <2>3, TellingCovers
  <2>4. QED
    BY <2>1, <2>2, <2>3, <1>1
<1>6. ASSUME NEW j \in 1..Len(q1), j <= Len(q), Comes(q1, e, r, j)
      PROVE  /\ a <= m1[j] /\ m1[j] <= b
             /\ \A x \in q1[j].entries :
                  /\ x.seq \in 1..m1[j]
                  /\ x.key \in KeysOf(e) => IsLast(w, m1[j], x.key, x.seq) /\ x.val = w[x.seq].val
             /\ \A k \in KeysOf(e), i \in 1..m1[j] :
                  IsLast(w, m1[j], k, i) => Covered(n, e, q1, m1, d, a, w, r, k, i, j)
  <2>1. j \in 1..Len(q) /\ q1[j] = q[j] /\ m1[j] = m[j] /\ Comes(q, e, r, j)
    BY <1>3, <1>6
  <2>2. /\ a <= m[j] /\ m[j] <= b
        /\ \A x \in q[j].entries :
                  /\ x.seq \in 1..m[j]
                  /\ x.key \in KeysOf(e) => IsLast(w, m[j], x.key, x.seq) /\ x.val = w[x.seq].val
    BY <2>1, <1>4 DEF Whole
  <2>3. ASSUME NEW k \in KeysOf(e), NEW i \in 1..m[j], IsLast(w, m[j], k, i)
        PROVE  Covered(n, e, q1, m1, d, a, w, r, k, i, j)
    <3>1. Covered(n, e, q, m, d, a, w, r, k, i, j)
      BY <2>1, <2>3, <1>4 DEF Whole
    <3>2. j \in 0..Len(q) /\ j \in j..Len(q1)
      BY <2>1, <1>1 DEF Follows
    <3>3. \A l \in j + 1..j : FALSE
      BY <2>1, <1>1
    <3>4. QED
      BY <3>1, <3>2, <3>3, <1>1, CoveredLater
  <2>4. QED
    BY <2>1, <2>2, <2>3
<1>7. Whole(n, e, q1, m1, d, a, w, r, b)
  BY <1>1, <1>5, <1>6 DEF Whole
<1>8. InOrder(e, q1, m1, r)
  BY <1>2, <1>7, <1>1, <1>3, <1>4 DEF InOrder, Whole
<1>9. ASSUME a > 0, NEW j \in 1..Len(q1), About(q1[j], e) PROVE Comes(q1, e, r, j)
  BY <1>2, <1>9, <1>3, <1>4, <1>1
<1>10. QED
  BY <1>1, <1>7, <1>8, <1>9 DEF Flow

LEMMA SpreadSilent ==
    ASSUME NEW D, NEW I, NEW P, NEW W, NEW s, NEW at, NEW mk, NEW p, NEW D1, NEW I1, NEW mk1,
           Spreading(D, I, P, W, s, at, mk, p, D1, I1, mk1),
           NEW n \in Endpoint, NEW e \in Endpoint, ~Told(p, D[p], n, e)
    PROVE  Silent(I1[n], I[n], e)
<1>1. SUFFICES ASSUME NEW j \in 1..Len(I1[n]), j > Len(I[n]), About(I1[n][j], e)
               PROVE  FALSE
  BY DEF Silent
<1>2. I1[n][j].from = e
  BY <1>1 DEF About
<1>3. QED
  BY <1>1, <1>2, NewIs

LEMMA SpreadPair ==
    ASSUME NEW D, NEW I, NEW P, NEW W, NEW s, NEW at, NEW mk, NEW p, NEW D1, NEW I1, NEW mk1,
           Spreading(D, I, P, W, s, at, mk, p, D1, I1, mk1),
           NEW n \in Endpoint, NEW e \in Endpoint, n # e, Live(D, P, n, e),
           NEW q1, q1 = I1[n], NEW m1, m1 = mk1[n], NEW z, z = Source(n, e)
    PROVE  /\ Flow(n, e, q1, m1, D1[n], at[n][e], W[e], Proc(D, e), at[z][e])
           /\ Linked(n, e, D1[z]) => Sent(n, e, q1, m1, D1[n], at[n][e], W[e], Proc(D, e), D1[z], at[z][e])
<1> DEFINE q == I[n]
           m == mk[n]
           a == at[n][e]
           w == W[e]
           r == Proc(D, e)
           b == at[z][e]
<1>1. Good(D, I, P, W, s, at, mk) /\ p \in Endpoint
  BY SpreadFacts
<1>2. Len(q) \in Nat /\ Len(q1) \in Nat /\ Follows(q1, q) /\ \A j \in 1..Len(q) : m1[j] = m[j]
  <2>1. Len(q) \in Nat /\ Len(q1) \in Nat
    BY SpreadFacts
  <2>2. Follows(q1, q) /\ \A j \in 1..Len(q) : m1[j] = m[j]
    BY DEF Spreading, Delivered
  <2>3. QED
    BY <2>1, <2>2
<1>3. /\ a \in Nat /\ b \in Nat /\ Len(w) \in Nat /\ Softer(e, D[n], D1[n])
      /\ Grows(w, w) /\ at[Source(n, e)][e] <= b
  BY <1>1, PairFacts, ModuleFacts, SpreadFacts, SameGrows
<1>4. CASE z # p
  <2>1. ~Told(p, D[p], n, e)
    BY <1>1, <1>4, ToldIs
  <2>2. Silent(q1, q, e)
    BY <2>1, SpreadSilent
  <2>3. Flow(n, e, q, m, D1[n], a, w, r, b)
    <3> HIDE DEF w
    <3>1. Flow(n, e, I[n], mk[n], D1[n], at[n][e], w, Proc(D, e), b)
      BY <1>1, <1>3, FlowStays DEF w
    <3>2. QED
      BY <3>1
  <2>4. Flow(n, e, q1, m1, D1[n], a, w, r, b)
    <3> HIDE DEF q, m, a, w, r, b
    <3>1. QED
      BY <2>2, <2>3, <1>2, FlowSilent
  <2>5. D1[z] = D[z]
    BY Places, <1>4 DEF Spreading
  <2>6. ASSUME Linked(n, e, D1[z]) PROVE Sent(n, e, q1, m1, D1[n], a, w, r, D1[z], b)
    <3>1. Linked(n, e, D[z])
      BY <2>5, <2>6
    <3>2. Sent(n, e, q, m, D1[n], a, w, r, D[z], b)
      BY <3>1, <1>1, <1>3, SentStays
    <3>3. Sent(n, e, q, m, D1[n], a, w, r, D1[z], b)
      BY <3>2, <2>5
    <3> HIDE DEF q, m, a, w, r, b
    <3>4. QED
      BY <3>3, <2>2, <1>2, SentSilent
  <2>7. QED
    BY <2>4, <2>6
<1>5. CASE z = p
  <2>1. Telling(D, I, P, W, s, at, mk, p, D1, I1, mk1, n, e)
    BY <1>5 DEF Telling
  <2>2. D1[n] = D[n]
    BY <2>1, TellingFacts
  <2>3. Flow(n, e, q1, m1, D1[n], a, w, r, b)
    BY <2>1, SpreadFlow, <2>2, <1>5
  <2>4. ASSUME Linked(n, e, D1[p]) PROVE Sent(n, e, q1, m1, D[n], a, w, r, D1[p], b)
    <3>1. SUFFICES ASSUME NEW k \in KeysOf(e), NEW i \in 1..b, IsLast(w, b, k, i)
                   PROVE  Covered(n, e, q1, m1, D[n], a, w, r, k, i, Len(q1))
      BY DEF Sent
    <3>2. Copy(e, D[p], b, w, r)
      BY <2>1, <1>5, TellingFacts
    <3>3. e \in DOMAIN D[p].ep
      BY <3>1, <1>3, <3>2 DEF Copy
    <3>4. Direct(n, e) \/ n \in DOMAIN D[p].ep
      BY <1>1, SpreadFacts, <2>4 DEF Linked
    <3>5. Told(p, D[p], n, e)
      BY <3>3, <3>4, <1>1, <1>5, ToldWhen
    <3>6. Complete(q1, q, p, D[p], n)
      BY DEF Live, Spreading
    <3>7. (Wide(p, D[p], n) \/ Changed(D[p], e) # {}) => \E l \in Len(q) + 1..Len(q1) : About(q1[l], e)
      BY <3>5, <3>6 DEF Complete
    <3>8. Len(q1) \in Len(q)..Len(q1)
      BY <1>2 DEF Follows
    <3>9. QED
      BY <3>1, <3>5, <3>7, <3>8, <2>1, <1>5, TellingCovers
  <2>5. QED
    BY <2>2, <2>3, <2>4, <1>5
<1>6. QED
  BY <1>4, <1>5

LEMMA SpreadStarting ==
    ASSUME NEW D, NEW I, NEW P, NEW W, NEW s, NEW at, NEW mk, NEW p, NEW D1, NEW I1, NEW mk1,
           Spreading(D, I, P, W, s, at, mk, p, D1, I1, mk1),
           NEW n \in Endpoint, NEW e \in Endpoint, n # e, P[n] # 0, ~Linked(n, e, D1[Source(n, e)])
    PROVE  Nothing(e, I1[n], D1[n], at[n][e])
<1> DEFINE z == Source(n, e)
<1>1. Good(D, I, P, W, s, at, mk) /\ p \in Endpoint /\ z \in Endpoint
  BY SpreadFacts, Places
<1>2. Len(I[n]) \in Nat /\ Len(I1[n]) \in Nat /\ Follows(I1[n], I[n])
  BY SpreadFacts DEF Spreading, Delivered
<1>3. ~Linked(n, e, D[z]) /\ ~Told(p, D[p], n, e)
  <2>1. CASE z # p
    BY <2>1, <1>1, ToldIs DEF Spreading
  <2>2. CASE z = p
    BY <2>2, <1>1, Places DEF Spreading, IsSpread, Linked, Told, Direct
  <2>3. QED
    BY <2>1, <2>2
<1>4. Nothing(e, I[n], D1[n], at[n][e])
  <2>1. Softer(e, D[n], D1[n])
    BY SpreadFacts
  <2>2. QED
    BY <2>1, <1>1, <1>3, NothingStays
<1>5. Silent(I1[n], I[n], e)
  BY <1>3, SpreadSilent
<1>6. QED
  BY <1>2, <1>4, <1>5, NothingSilent

LEMMA SpreadOwned ==
    ASSUME NEW D, NEW I, NEW P, NEW W, NEW s, NEW at, NEW mk, NEW p, NEW D1, NEW I1, NEW mk1,
           Spreading(D, I, P, W, s, at, mk, p, D1, I1, mk1), NEW n \in Endpoint, NEW e \in Endpoint
    PROVE  /\ Live(D, P, n, e) => Copy(e, D1[n], at[n][e], W[e], Proc(D, e))
           /\ Forwards(D, P, n, e) => Owned(e, D1[n], at[n][e], W[e])
<1>1. Good(D, I, P, W, s, at, mk) /\ Len(W[e]) \in Nat /\ Grows(W[e], W[e])
  BY SpreadFacts, ModuleFacts, SameGrows
<1>2. DOMAIN D1[n].ep = DOMAIN D[n].ep
  BY SpreadFacts
<1>3. e \in DOMAIN D[n].ep => /\ D1[n].ep[e].id = D[n].ep[e].id /\ D1[n].ep[e].recv = D[n].ep[e].recv
                              /\ D1[n].ep[e].pid = D[n].ep[e].pid
  BY SpreadFacts
<1>4. \A k \in KeysOf(e) : D1[n].entry[k] = D[n].entry[k] \/ (D[n].entry[k].val = Nil /\ D1[n].entry[k].val = Nil)
  BY SpreadFacts DEF KeysOf
<1>5. e \in DOMAIN D1[n].ep => \A k \in OwnedBy(D1[n], e) : k \in OwnedBy(D[n], e) /\ D1[n].entry[k] = D[n].entry[k]
  BY <1>2, SpreadFacts
<1>6. ASSUME Live(D, P, n, e) PROVE Copy(e, D1[n], at[n][e], W[e], Proc(D, e))
  BY <1>1, <1>2, <1>3, <1>4, <1>6, CopyStays
<1>7. ASSUME Forwards(D, P, n, e) PROVE Owned(e, D1[n], at[n][e], W[e])
  BY <1>1, <1>2, <1>5, <1>7, OwnedStays
<1>8. QED
  BY <1>6, <1>7

LEMMA SpreadKeys ==
    ASSUME NEW D, NEW I, NEW P, NEW W, NEW s, NEW at, NEW mk, NEW p, NEW D1, NEW I1, NEW mk1,
           Spreading(D, I, P, W, s, at, mk, p, D1, I1, mk1)
    PROVE  Keys(D1, I1, W)
<1>1. Good(D, I, P, W, s, at, mk) /\ p \in Endpoint /\ Keys(D, I, W)
  BY SpreadFacts DEF Good
<1>2. ASSUME NEW n \in Endpoint, NEW e \in DOMAIN D1[n].ep, NEW k \in OwnedBy(D1[n], e)
      PROVE  KeyFrom(e, k, D1[n].entry[k].val) /\ (n # e => WriterOf[k] # n)
  BY <1>2, SpreadFacts, <1>1 DEF Keys
<1>3. ASSUME NEW n \in Endpoint, NEW j \in 1..Len(I1[n]), I1[n][j].type = "update", NEW x \in I1[n][j].entries
      PROVE  KeyFrom(I1[n][j].from, x.key, x.val) /\ WriterOf[x.key] # n
  <2>1. Len(I[n]) \in Nat /\ Len(I1[n]) \in Nat /\ Follows(I1[n], I[n])
    BY SpreadFacts DEF Spreading, Delivered
  <2>2. CASE j <= Len(I[n])
    BY <2>1, <2>2, <1>1, <1>3 DEF Follows, Keys
  <2>3. CASE j > Len(I[n])
    <3>1. PICK e \in Endpoint : e = I1[n][j].from /\ Told(p, D[p], n, e) /\ IsNews(I1[n][j], D[p], e, Part(p, D[p], n, e))
      BY <2>3, NewIs
    <3>2. x.key \in Part(p, D[p], n, e) /\ x.val = D[p].entry[x.key].val
      BY <3>1 DEF IsNews
    <3>3. x.key \in OwnedBy(D[p], e) /\ x.key \in Key /\ e \in DOMAIN D[p].ep
      BY <3>1, <3>2, PartIs DEF Told
    <3>4. KeyFrom(e, x.key, x.val)
      BY <3>2, <3>3, <1>1 DEF Keys
    <3>5. n # e /\ Source(n, e) = p
      BY <1>1, <3>1, ToldIs
    <3>6. ASSUME WriterOf[x.key] = n PROVE FALSE
      <4>1. x.key \in KeysOf(n)
        BY <3>3, <3>6 DEF KeysOf
      <4>2. n \in Modules /\ ~IsCentral(n) /\ e = CentralOf(n) /\ x.key = PortsOf[n] /\ x.val = Nil
        BY <4>1, <3>4, <3>5, KeyIs
      <4>3. p = e
        BY <4>2, <3>5 DEF Source
      <4>4. IsCentral(p) /\ n \in DOMAIN D[p].ep
        BY <4>2, <4>3, <3>1, Places DEF Told
      <4>5. P[n] # 0
        BY <2>3, NewIs
      <4>6. Uncleared(D, at, W, n)
        BY <4>2, <4>5, <1>1 DEF Good, Clearing
      <4>7. Wide(p, D[p], n)
        BY <4>6, <4>2, <4>3, <4>4, <3>3 DEF Uncleared, Wide
      <4>8. D[p].entry[x.key].val # Nil
        BY <4>7, <3>2, PartIs
      <4>9. QED
        BY <4>8, <4>2, <3>2
    <3>7. QED
      BY <3>1, <3>4, <3>6
  <2>4. QED
    BY <2>1, <2>2, <2>3
<1>4. \A e \in Endpoint : \A i \in 1..Len(W[e]) : KeyFrom(e, W[e][i].key, W[e][i].val)
  BY <1>1 DEF Keys
<1>5. QED
  BY <1>2, <1>3, <1>4 DEF Keys

LEMMA SpreadNumbered ==
    ASSUME NEW d, NEW d1, NEW p, NEW w, IsDb(d), IsSpread(d1, p, d), Numbered(d, p, w)
    PROVE  Numbered(d1, p, w)
<1>1. DOMAIN d1.ep = DOMAIN d.ep /\ d1.nextID = d.nextID
  BY DEF IsSpread
<1>2. \A e \in DOMAIN d.ep : d1.ep[e].id = d.ep[e].id /\ d1.ep[e].recv = d.ep[e].recv /\ d1.ep[e].sent = d1.ep[e].recv
  BY DEF IsSpread
<1>3. \A e \in DOMAIN d.ep : d.ep[e].recv \in Nat
  BY RecordIs
<1>4. p \in DOMAIN d1.ep /\ d1.ep[p].id = 0 /\ d1.ep[p].recv = Len(w)
  BY <1>1, <1>2 DEF Numbered
<1>5. \A e, f \in DOMAIN d1.ep : d1.ep[e].id = d1.ep[f].id => e = f
  BY <1>1, <1>2 DEF Numbered
<1>6. \A e \in DOMAIN d1.ep : d1.ep[e].id < d1.nextID
  BY <1>1, <1>2 DEF Numbered
<1>7. \A e \in DOMAIN d1.ep : d1.ep[e].sent <= d1.ep[e].recv
  BY <1>1, <1>2, <1>3
<1>8. \A k \in Key : d1.entry[k].has => d1.entry[k].owner < d1.nextID
  BY <1>1, SpreadSame DEF Numbered
<1>9. \E b \in Nat : \A k \in Key : d1.entry[k].seq <= b
  BY SpreadSame DEF Numbered
<1>10. QED
  BY <1>4, <1>5, <1>6, <1>7, <1>8, <1>9 DEF Numbered

LEMMA SpreadBase ==
    ASSUME NEW D, NEW I, NEW P, NEW W, NEW s, NEW at, NEW mk, NEW p, NEW D1, NEW I1, NEW mk1,
           Spreading(D, I, P, W, s, at, mk, p, D1, I1, mk1)
    PROVE  Base(D1, I1, P, W, s)
<1>1. Good(D, I, P, W, s, at, mk) /\ p \in Endpoint /\ Base(D, I, P, W, s) /\ IsSpread(D1[p], p, D[p])
  BY SpreadFacts DEF Good, Spreading
<1>2. Total(D1) /\ I1 \in [Endpoint -> Seq(Message)] /\ W \in [Endpoint -> Seq(WriteType)]
  BY <1>1 DEF Spreading, Base
<1>3. ASSUME NEW n \in Endpoint PROVE IsDb(D1[n]) /\ Numbered(D1[n], n, W[n])
  <2>1. IsDb(D[n]) /\ Numbered(D[n], n, W[n])
    BY <1>1, ModuleFacts
  <2>2. CASE n = p
    BY <2>1, <2>2, <1>1, SpreadNumbered DEF IsSpread
  <2>3. CASE n # p
    BY <2>3, <2>1 DEF Spreading
  <2>4. QED
    BY <2>2, <2>3
<1>4. \A n \in Endpoint : Proc(D1, n) = Proc(D, n)
  BY SpreadFacts
<1>5. \A n \in Endpoint : \A e \in DOMAIN D[n].ep : PidFits(D, n, e, D[n].ep[e].pid)
  BY <1>1 DEF Base, Processes
<1>6. ASSUME NEW n \in Endpoint, NEW e \in DOMAIN D1[n].ep PROVE PidFits(D, n, e, D1[n].ep[e].pid)
  BY <1>6, SpreadFacts, <1>5
<1>7. ASSUME NEW n \in Endpoint, NEW j \in 1..Len(I1[n]) PROVE Proper(D, n, I1[n][j])
  <2>1. Len(I[n]) \in Nat /\ Len(I1[n]) \in Nat /\ Follows(I1[n], I[n])
    BY SpreadFacts DEF Spreading, Delivered
  <2>2. CASE j <= Len(I[n])
    BY <2>1, <2>2, <1>1 DEF Follows, Base
  <2>3. CASE j > Len(I[n])
    <3>1. PICK m : m = I1[n][j]
      OBVIOUS
    <3>2. PICK e \in Endpoint : e = m.from /\ Told(p, D[p], n, e) /\ IsNews(m, D[p], e, Part(p, D[p], n, e))
      BY <2>3, <3>1, NewIs
    <3>3. m.type = "update" /\ m.pid = D[p].ep[e].pid /\ e \in DOMAIN D[p].ep
      BY <3>2 DEF IsNews, Told
    <3>4. PidFits(D, p, e, m.pid)
      BY <3>3, <1>1, <1>5
    <3>5. n # e /\ ((Local(n, e) \/ IsCentral(n)) => Local(p, e)) /\ (Direct(n, e) => e = p)
      BY <3>2, <1>1, ToldIs
    <3>6. Direct(n, e) => m.pid = Proc(D, e)
      BY <3>3, <3>5 DEF Proc
    <3>7. m.pid <= Proc(D, e) /\ ((Local(n, e) \/ IsCentral(n)) => m.pid > 0)
      BY <3>4, <3>5 DEF PidFits
    <3>8. \A x, y \in m.entries : x.key = y.key => x = y
      BY <3>2 DEF IsNews
    <3>9. \E b \in Nat : \A x \in m.entries : x.seq <= b
      <4>1. Numbered(D[p], p, W[p])
        BY <1>1, ModuleFacts
      <4>2. PICK b \in Nat : \A k \in Key : D[p].entry[k].seq <= b
        BY <4>1 DEF Numbered
      <4>3. \A x \in m.entries : x.key \in Key /\ x.seq = D[p].entry[x.key].seq
        BY <3>2, PartIs DEF IsNews
      <4>4. QED
        BY <4>2, <4>3
    <3>10. Proper(D, n, m)
      BY <3>2, <3>5, <3>6, <3>7, <3>8, <3>9 DEF Proper
    <3>11. QED
      BY <3>10, <3>1
  <2>4. QED
    BY <2>1, <2>2, <2>3
<1>8. QED
  BY <1>1, <1>2, <1>3, <1>4, <1>6, <1>7, BaseStays

(* Who tells of the deletion of m's ports. *)
LEMMA SpreadClearing ==
    ASSUME NEW D, NEW I, NEW P, NEW W, NEW s, NEW at, NEW mk, NEW p, NEW D1, NEW I1, NEW mk1,
           Spreading(D, I, P, W, s, at, mk, p, D1, I1, mk1), NEW m \in Modules, P[m] # 0
    PROVE  /\ Uncleared(D1, at, W, m)
           /\ \A n \in Endpoint : (n # m /\ n # CentralOf(m) /\ Live(D, P, n, m)) =>
                 ClearedFirst(n, m, I1[n], at[n][m], W[m], Proc(D, m))
           /\ Proc(D, m) = 1 => NeverCleared(D1, I1, m)
<1> DEFINE c == CentralOf(m)
           k == PortsOf[m]
           r == Proc(D, m)
<1>1. Good(D, I, P, W, s, at, mk) /\ p \in Endpoint /\ IsDb(D[p]) /\ m \in Endpoint /\ ~IsCentral(m)
  BY SpreadFacts DEF Modules
<1>2. c \in Endpoint /\ IsCentral(c) /\ c # m /\ Local(m, c) /\ Local(c, m) /\ CentralOf(c) = c
  BY <1>1, Places
<1>3. k \in Key /\ WriterOf[k] = m /\ k \in KeysOf(m)
  BY MnemosynthAssumption DEF KeysOf
<1>4. /\ Uncleared(D, at, W, m)
      /\ \A n \in Endpoint : (n # m /\ n # c /\ Live(D, P, n, m)) => ClearedFirst(n, m, I[n], at[n][m], W[m], r)
      /\ r = 1 => NeverCleared(D, I, m)
  BY <1>1 DEF Good, Clearing
<1>5. c \in DOMAIN D[c].ep
  BY <1>1, <1>2, ModuleFacts DEF Numbered
<1>6. \A n \in Endpoint : \A e \in DOMAIN D[n].ep : \A j \in OwnedBy(D1[n], e) : j \in OwnedBy(D[n], e)
  BY SpreadFacts
<1>7. ASSUME NEW n \in Endpoint, NEW l \in 1..Len(I1[n]), l > Len(I[n]), About(I1[n][l], c), Mentions(I1[n][l], k)
      PROVE  /\ Told(p, D[p], n, c) /\ n # c /\ Source(n, c) = p /\ c \in DOMAIN D[p].ep /\ k \in OwnedBy(D[p], c)
             /\ IsCentral(p)
  BY <1>7, NewIs, PartIs, <1>1, <1>2, ToldIs DEF About, IsNews, Mentions, Told
<1>8. Uncleared(D1, at, W, m)
  <2>1. CASE p = c
    <3>1. ASSUME k \in OwnedBy(D1[c], c) PROVE FALSE
      <4>1. IsSpread(D1[c], c, D[c]) /\ IsDb(D[c])
        BY <2>1, <1>1 DEF Spreading
      <4>2. k \in OwnedBy(D[c], c) /\ k \notin Stubs(c, D[c])
        BY <4>1, <3>1, <1>5, SpreadSame
      <4>3. KeyFrom(c, k, D[c].entry[k].val)
        BY <4>2, <1>1, <1>2, <1>5 DEF Good, Keys
      <4>4. D[c].entry[k].val = Nil
        BY <4>3, <1>1, <1>2, <1>3, KeyIs
      <4>5. k \in Stubs(c, D[c])
        BY <4>2, <4>4, <1>2, <1>3, <1>5 DEF Stubs, OwnedBy
      <4>6. QED
        BY <4>2, <4>5
    <3>2. QED
      BY <3>1 DEF Uncleared
  <2>2. CASE p # c
    BY <2>2, <1>2, <1>4 DEF Spreading, Uncleared
  <2>3. QED
    BY <2>1, <2>2
<1>9. ASSUME NEW n \in Endpoint, n # m, n # c, Live(D, P, n, m)
      PROVE  ClearedFirst(n, m, I1[n], at[n][m], W[m], r)
  <2>1. ClearedFirst(n, m, I[n], at[n][m], W[m], r)
    BY <1>4, <1>9
  <2>2. Len(I[n]) \in Nat /\ Len(I1[n]) \in Nat /\ Follows(I1[n], I[n])
    BY SpreadFacts DEF Spreading, Delivered
  <2>3. SUFFICES ASSUME NEW l \in 1..Len(I1[n]), About(I1[n][l], c), Mentions(I1[n][l], k)
                 PROVE  /\ \A i \in 1..at[n][m] : IsLast(W[m], at[n][m], k, i) => W[m][i].val = Nil
                        /\ \A j \in 1..l - 1 : Comes(I1[n], m, r, j) => ~Mentions(I1[n][j], k)
    BY DEF ClearedFirst
  <2>4. CASE l <= Len(I[n])
    <3>1. l \in 1..Len(I[n]) /\ I1[n][l] = I[n][l]
      BY <2>2, <2>4 DEF Follows
    <3>2. /\ \A i \in 1..at[n][m] : IsLast(W[m], at[n][m], k, i) => W[m][i].val = Nil
          /\ \A j \in 1..l - 1 : Comes(I[n], m, r, j) => ~Mentions(I[n][j], k)
      BY <3>1, <2>1, <2>3 DEF ClearedFirst
    <3>3. \A j \in 1..l - 1 : I1[n][j] = I[n][j] /\ j \in 1..Len(I[n])
      BY <3>1, <2>2 DEF Follows
    <3>4. QED
      BY <3>2, <3>3 DEF Comes
  <2>5. CASE l > Len(I[n]) /\ p = c
    <3>1. /\ n # c /\ Source(n, c) = c /\ k \in OwnedBy(D[c], c)
      BY <2>3, <2>5, <1>7
    <3>2. \A i \in 1..at[c][m] : W[m][i].key # k
      BY <3>1, <1>4 DEF Uncleared
    <3>3. Source(n, m) = c
      BY <3>1, <1>1, <1>9, Places DEF Source
    <3>4. at[n][m] <= at[c][m] /\ at[n][m] \in Nat /\ at[c][m] \in Nat
      BY <3>3, <1>1, <1>2, <1>9, LiveIs, PairFacts
    <3>5. Flow(n, m, I1[n], mk1[n], D1[n], at[n][m], W[m], r, at[c][m])
      BY <3>3, <1>1, <1>9, SpreadPair
    <3>6. ASSUME NEW j \in 1..l - 1, Comes(I1[n], m, r, j), Mentions(I1[n][j], k) PROVE FALSE
      <4>1. j \in 1..Len(I1[n])
        BY <3>6, <2>2
      <4>2. PICK x \in I1[n][j].entries : x.key = k
        BY <3>6 DEF Mentions
      <4>3. mk1[n][j] <= at[c][m] /\ x.seq \in 1..mk1[n][j] /\ IsLast(W[m], mk1[n][j], k, x.seq)
        BY <4>1, <4>2, <3>5, <3>6, <1>3 DEF Flow, Whole
      <4>4. mk1[n][j] \in Nat
        BY <4>1, ElementOfSeq DEF Spreading
      <4>5. W[m][x.seq].key = k /\ x.seq \in 1..at[c][m]
        BY <4>3, <4>4, <3>4 DEF IsLast
      <4>6. QED
        BY <4>5, <3>2
    <3>7. ASSUME NEW i \in 1..at[n][m], IsLast(W[m], at[n][m], k, i) PROVE W[m][i].val = Nil
      BY <3>4, <3>7, <3>2 DEF IsLast
    <3>8. QED
      BY <3>6, <3>7
  <2>6. CASE l > Len(I[n]) /\ p # c
    <3>1. Told(p, D[p], n, c) /\ IsCentral(p) /\ c \in DOMAIN D[p].ep /\ k \in OwnedBy(D[p], c)
      BY <2>3, <2>6, <1>7
    <3>2. ~Local(p, c)
      BY <3>1, <2>6, <1>1, <1>2, Places
    <3>3. n # p /\ Local(p, n)
      BY <3>1, <3>2 DEF Told
    <3>4. ~IsCentral(n)
      BY <3>1, <3>3, <1>1, Places
    <3>5. ~Local(n, m)
      BY <3>2, <3>3, <1>2 DEF Local
    <3>6. r = 1
      BY <3>4, <3>5, <1>9 DEF Live
    <3>7. QED
      BY <3>6, <3>1, <1>1, <1>4 DEF NeverCleared
  <2>7. QED
    BY <2>2, <2>4, <2>5, <2>6
<1>10. ASSUME r = 1 PROVE NeverCleared(D1, I1, m)
  <2>1. NeverCleared(D, I, m)
    BY <1>4, <1>10
  <2>2. ASSUME NEW n \in Endpoint, c \in DOMAIN D1[n].ep PROVE k \notin OwnedBy(D1[n], c)
    <3>1. c \in DOMAIN D[n].ep
      BY <2>2, SpreadFacts
    <3>2. k \notin OwnedBy(D[n], c)
      BY <3>1, <2>1 DEF NeverCleared
    <3>3. QED
      BY <3>1, <3>2, <1>6
  <2>3. ASSUME NEW n \in Endpoint, NEW l \in 1..Len(I1[n]), About(I1[n][l], c), Mentions(I1[n][l], k)
        PROVE  FALSE
    <3>1. Len(I[n]) \in Nat /\ Len(I1[n]) \in Nat /\ Follows(I1[n], I[n])
      BY SpreadFacts DEF Spreading, Delivered
    <3>2. CASE l <= Len(I[n])
      BY <3>1, <3>2, <2>1, <2>3 DEF Follows, NeverCleared
    <3>3. CASE l > Len(I[n])
      BY <2>3, <3>3, <1>7, <2>1, <1>1 DEF NeverCleared
    <3>4. QED
      BY <3>1, <3>2, <3>3
  <2>4. QED
    BY <2>2, <2>3 DEF NeverCleared
<1>11. QED
  BY <1>8, <1>9, <1>10

LEMMA SpreadKeeps ==
    ASSUME NEW D, NEW I, NEW P, NEW W, NEW s, NEW at, NEW mk, NEW p, NEW D1, NEW I1, NEW mk1,
           Spreading(D, I, P, W, s, at, mk, p, D1, I1, mk1)
    PROVE  Good(D1, I1, P, W, s, at, mk1)
<1>1. Good(D, I, P, W, s, at, mk) /\ p \in Endpoint
  BY SpreadFacts
<1>2. \A n \in Endpoint : Proc(D1, n) = Proc(D, n)
  BY SpreadFacts
<1>3. \A n, e \in Endpoint : (Live(D1, P, n, e) <=> Live(D, P, n, e)) /\ (Forwards(D1, P, n, e) <=> Forwards(D, P, n, e))
  BY <1>2, LiveSame
<1>4. Marked(I1, W, at, mk1)
  BY <1>1 DEF Good, Spreading, Marked
<1>5. Copying(D1, P, W, at) /\ Owning(D1, P, W, at)
  BY SpreadOwned, <1>2, <1>3 DEF Copying, Owning
<1>6. Flowing(D1, I1, P, W, at, mk1) /\ Sending(D1, I1, P, W, at, mk1)
  BY <1>2, <1>3, SpreadPair DEF Flowing, Sending
<1>7. Starting(D1, I1, P, at)
  BY SpreadStarting DEF Starting
<1>8. Clearing(D1, I1, P, W, at)
  BY <1>2, <1>3, SpreadClearing DEF Clearing, Modules
<1>9. Notified(D1)
  BY <1>1 DEF Notified, Spreading, IsSpread, Good
<1>10. QED
  BY <1>4, <1>5, <1>6, <1>7, <1>8, <1>9, SpreadBase, SpreadKeys DEF Good

-----------------------------------------------------------------------------
(* Modules stop and start.                                                 *)

LEMMA StopKeeps ==
    ASSUME NEW D, NEW I, NEW P, NEW W, NEW s, NEW at, NEW mk, Good(D, I, P, W, s, at, mk),
           NEW m \in Modules, NEW P1, P1 \in [Endpoint -> Nat], P1[m] = 0,
           \A n \in Endpoint : n # m => P1[n] = P[n], NEW s1, s1 = s + 1
    PROVE  Good(D, I, P1, W, s1, at, mk)
<1>1. /\ Base(D, I, P, W, s) /\ Marked(I, W, at, mk) /\ Keys(D, I, W)
      /\ Copying(D, P, W, at) /\ Owning(D, P, W, at)
      /\ Flowing(D, I, P, W, at, mk) /\ Sending(D, I, P, W, at, mk) /\ Starting(D, I, P, at)
      /\ Clearing(D, I, P, W, at) /\ Notified(D)
  BY DEF Good
<1>2. \A n \in Endpoint : P1[n] # 0 => P[n] # 0
  OBVIOUS
<1>3. \A n, e \in Endpoint : /\ Live(D, P1, n, e) => Live(D, P, n, e)
                             /\ Forwards(D, P1, n, e) => Forwards(D, P, n, e)
  BY <1>2 DEF Live, Forwards
<1>4. Base(D, I, P1, W, s1)
  BY <1>1, ModuleFacts DEF Base, Modules
<1>5. Copying(D, P1, W, at)
  BY <1>1, <1>3 DEF Copying
<1>6. Owning(D, P1, W, at)
  BY <1>1, <1>3 DEF Owning
<1>7. Flowing(D, I, P1, W, at, mk)
  BY <1>1, <1>3 DEF Flowing
<1>8. Sending(D, I, P1, W, at, mk)
  BY <1>1, <1>3 DEF Sending
<1>9. Starting(D, I, P1, at)
  BY <1>1, <1>2 DEF Starting
<1>10. Clearing(D, I, P1, W, at)
  BY <1>1, <1>2, <1>3 DEF Clearing, Modules
<1>11. QED
  BY <1>1, <1>4, <1>5, <1>6, <1>7, <1>8, <1>9, <1>10 DEF Good

Forgets(D, P, c, m, D1) ==
    /\ m \in Modules /\ P[m] = 0 /\ c \in Endpoint /\ IsCentral(c)
    /\ Total(D1) /\ IsRemoved(D1[c], D[c], m) /\ \A n \in Endpoint : n # c => D1[n] = D[n]

LEMMA RemoveKeeps ==
    ASSUME NEW D, NEW I, NEW P, NEW W, NEW s, NEW at, NEW mk, Good(D, I, P, W, s, at, mk),
           NEW c, NEW m, NEW D1, Forgets(D, P, c, m, D1)
    PROVE  Good(D1, I, P, W, s, at, mk)
<1> SUFFICES
      ASSUME m \in Modules, P[m] = 0, c \in Endpoint, IsCentral(c),
             Total(D1), \A n \in Endpoint : n # c => D1[n] = D[n], IsRemoved(D1[c], D[c], m)
      PROVE  Good(D1, I, P, W, s, at, mk)
  BY Zenon DEF Forgets
<1>1. m \in Endpoint /\ c # m
  BY DEF Modules
<1>2. \A n \in Endpoint : IsDb(D[n]) /\ Numbered(D[n], n, W[n]) /\ n \in DOMAIN D[n].ep
  <2>1. SUFFICES ASSUME NEW n \in Endpoint PROVE IsDb(D[n]) /\ Numbered(D[n], n, W[n]) /\ n \in DOMAIN D[n].ep
    OBVIOUS
  <2>2. IsDb(D[n]) /\ Numbered(D[n], n, W[n])
    BY ModuleFacts
  <2>3. QED
    BY ONLY <2>2 DEF Numbered
<1>3. /\ IsDb(D1[c]) /\ DOMAIN D1[c].ep = DOMAIN D[c].ep \ {m} /\ D1[c].nextID = D[c].nextID
      /\ D1[c].event = D[c].event /\ D1[c].entry = D[c].entry
      /\ \A f \in DOMAIN D1[c].ep : D1[c].ep[f] = D[c].ep[f]
  BY DEF IsRemoved
<1>4. \A n \in Endpoint :
         /\ IsDb(D1[n]) /\ DOMAIN D1[n].ep \subseteq DOMAIN D[n].ep
         /\ \A f \in DOMAIN D[n].ep : f # m => f \in DOMAIN D1[n].ep
         /\ D1[n].nextID = D[n].nextID /\ D1[n].event = D[n].event /\ D1[n].entry = D[n].entry
         /\ \A f \in DOMAIN D1[n].ep : D1[n].ep[f] = D[n].ep[f]
  BY <1>2, <1>3
<1>5. \A n \in Endpoint : n \in DOMAIN D1[n].ep /\ Proc(D1, n) = Proc(D, n)
  BY <1>1, <1>2, <1>4 DEF Proc
<1>6. \A n, e \in Endpoint : (Live(D1, P, n, e) <=> Live(D, P, n, e)) /\ (Forwards(D1, P, n, e) <=> Forwards(D, P, n, e))
  BY <1>5, LiveSame
<1>7. \A n, e \in Endpoint : e \in DOMAIN D1[n].ep => OwnedBy(D1[n], e) = OwnedBy(D[n], e)
  BY <1>4 DEF OwnedBy
<1>8. Base(D1, I, P, W, s)
  <2>1. Base(D, I, P, W, s)
    BY DEF Good
  <2>2. I \in [Endpoint -> Seq(Message)] /\ W \in [Endpoint -> Seq(WriteType)]
    BY <2>1 DEF Base
  <2>3. ASSUME NEW n \in Endpoint PROVE IsDb(D1[n]) /\ Numbered(D1[n], n, W[n])
    <3>1. Numbered(D[n], n, W[n])
      BY <1>2
    <3>2. n \in DOMAIN D1[n].ep
      BY <1>5
    <3>3. QED
      BY <3>1, <3>2, <1>4 DEF Numbered
  <2>4. \A n \in Endpoint : \A e \in DOMAIN D1[n].ep : PidFits(D, n, e, D1[n].ep[e].pid)
    BY <2>1, <1>4 DEF Base, Processes
  <2>5. \A n \in Endpoint : \A j \in 1..Len(I[n]) : Proper(D, n, I[n][j])
    BY <2>1 DEF Base
  <2>6. QED
    BY <2>1, <2>2, <2>3, <2>4, <2>5, <1>5, BaseStays
<1>9. Marked(I, W, at, mk)
  BY DEF Good
<1>10. Keys(D1, I, W)
  BY <1>2, <1>4, RecordIs, <1>7 DEF Good, Keys
<1>11. \A e \in Endpoint : P[e] # 0 => e # m
  OBVIOUS
<1>12. Copying(D1, P, W, at)
  <2>1. SUFFICES ASSUME NEW n \in Endpoint, NEW e \in Endpoint, Live(D, P, n, e)
                 PROVE  Copy(e, D1[n], at[n][e], W[e], Proc(D, e))
    BY <1>5, <1>6 DEF Copying
  <2>2. e # m
    BY <2>1 DEF Live
  <2>3. e \in DOMAIN D1[n].ep <=> e \in DOMAIN D[n].ep
    BY <2>2, <1>4
  <2>4. Len(W[e]) \in Nat /\ Grows(W[e], W[e])
    BY ModuleFacts, SameGrows
  <2>5. QED
    BY <2>1, <2>3, <2>4, <1>4, CopyStays
<1>13. Owning(D1, P, W, at)
  <2>1. SUFFICES ASSUME NEW n \in Endpoint, NEW e \in Endpoint, Forwards(D, P, n, e)
                 PROVE  Owned(e, D1[n], at[n][e], W[e])
    BY <1>6 DEF Owning
  <2>2. Len(W[e]) \in Nat /\ Grows(W[e], W[e])
    BY ModuleFacts, SameGrows
  <2>3. e \in DOMAIN D1[n].ep => e \in DOMAIN D[n].ep
    BY <1>4
  <2>4. e \in DOMAIN D1[n].ep => \A k \in OwnedBy(D1[n], e) : k \in OwnedBy(D[n], e) /\ D1[n].entry[k] = D[n].entry[k]
    BY <1>4, <1>7
  <2>5. QED
    BY <2>1, <2>2, <2>3, <2>4, OwnedStays
<1>14. \A n, e \in Endpoint : Softer(e, D[n], D1[n])
  BY <1>4 DEF Softer
<1>15. \A n, e \in Endpoint : n # m => (Linked(n, e, D1[Source(n, e)]) <=> Linked(n, e, D[Source(n, e)]))
  BY Places, <1>4 DEF Linked
<1>16. ASSUME NEW n \in Endpoint, NEW e \in Endpoint, n # e, Live(D, P, n, e)
       PROVE  /\ Flow(n, e, I[n], mk[n], D1[n], at[n][e], W[e], Proc(D, e), at[Source(n, e)][e])
              /\ Linked(n, e, D1[Source(n, e)]) =>
                    Sent(n, e, I[n], mk[n], D1[n], at[n][e], W[e], Proc(D, e), D1[Source(n, e)], at[Source(n, e)][e])
  <2>1. Len(W[e]) \in Nat /\ Grows(W[e], W[e]) /\ Softer(e, D[n], D1[n])
    BY <1>14, ModuleFacts, SameGrows
  <2>2. at[Source(n, e)][e] \in Nat /\ at[Source(n, e)][e] <= at[Source(n, e)][e] /\ Source(n, e) \in Endpoint
    BY PairFacts
  <2>3. Flow(n, e, I[n], mk[n], D1[n], at[n][e], W[e], Proc(D, e), at[Source(n, e)][e])
    BY <1>16, <2>1, <2>2, FlowStays
  <2>4. n # m /\ e # m
    BY <1>16 DEF Live
  <2>5. ASSUME NEW k, NEW i, Pending(D[Source(n, e)], e, k, i) PROVE Pending(D1[Source(n, e)], e, k, i)
    BY <2>2, <2>5, <2>4, <1>4, <1>7 DEF Pending
  <2>6. ASSUME Linked(n, e, D1[Source(n, e)])
        PROVE  Sent(n, e, I[n], mk[n], D1[n], at[n][e], W[e], Proc(D, e), D1[Source(n, e)], at[Source(n, e)][e])
    BY <2>4, <2>6, <1>15, <1>16, <2>1, <2>5, SentStays
  <2>7. QED
    BY <2>3, <2>6
<1>17. Flowing(D1, I, P, W, at, mk) /\ Sending(D1, I, P, W, at, mk)
  BY <1>16, <1>5, <1>6 DEF Flowing, Sending
<1>18. Starting(D1, I, P, at)
  BY <1>15, <1>14, NothingStays DEF Starting
<1>19. Clearing(D1, I, P, W, at)
  BY <1>5, Places, <1>7, <1>4, <1>6 DEF Clearing, Good, Modules, Uncleared, NeverCleared
<1>20. Notified(D1)
  BY <1>4 DEF Good, Notified
<1>21. QED
  BY <1>8, <1>9, <1>10, <1>12, <1>13, <1>17, <1>18, <1>19, <1>20 DEF Good

(* A new process of m starts with nothing, and is not known.               *)
Launching(D, I, P, W, s, at, mk, m, D1, I1, P1, W1, at1, mk1) ==
    /\ Good(D, I, P, W, s, at, mk) /\ m \in Modules /\ P[m] = 0
    /\ m \notin DOMAIN D[CentralOf(m)].ep
    /\ \A j \in 1..Len(I[CentralOf(m)]) : ~About(I[CentralOf(m)][j], m)
    /\ P1 \in [Endpoint -> Nat] /\ P1[m] = s + 1
    /\ Total(D1) /\ D1[m] = EmptyDb(m, s + 1)
    /\ I1 \in [Endpoint -> Seq(Message)] /\ I1[m] = <<>>
    /\ W1 \in [Endpoint -> Seq(WriteType)] /\ W1[m] = <<>>
    /\ mk1 \in [Endpoint -> Seq(Nat)] /\ mk1[m] = <<>>
    /\ \A n \in Endpoint : n # m => P1[n] = P[n] /\ D1[n] = D[n] /\ I1[n] = I[n] /\ W1[n] = W[n] /\ mk1[n] = mk[n]
    /\ at1 \in [Endpoint -> [Endpoint -> Nat]]
    /\ \A n, e \in Endpoint : at1[n][e] = IF n = m \/ e = m THEN 0 ELSE at[n][e]

LEMMA LaunchFacts ==
    ASSUME NEW D, NEW I, NEW P, NEW W, NEW s, NEW at, NEW mk, NEW m, NEW D1, NEW I1, NEW P1, NEW W1, NEW at1, NEW mk1,
           Launching(D, I, P, W, s, at, mk, m, D1, I1, P1, W1, at1, mk1)
    PROVE  /\ Good(D, I, P, W, s, at, mk) /\ m \in Endpoint /\ ~IsCentral(m) /\ P[m] = 0
           /\ s \in Nat /\ Proc(D1, m) = s + 1 /\ Proc(D, m) <= s /\ Proc(D, m) \in Nat /\ s + 1 # 1
           /\ \A n \in Endpoint : n # m => Proc(D1, n) = Proc(D, n)
           /\ IsDb(D1[m]) /\ DOMAIN D1[m].ep = {m} /\ \A k \in Key : D1[m].entry[k] = NoEntry
           /\ D1[m].ep[m].id = 0 /\ D1[m].ep[m].recv = 0 /\ D1[m].ep[m].sent = 0 /\ D1[m].ep[m].pid = s + 1
           /\ D1[m].nextID = 1
           /\ \A k \in Key : D1[m].entry[k].val = Nil /\ ~D1[m].entry[k].has /\ D1[m].entry[k].seq = 0
           /\ \A e : OwnedBy(D1[m], e) = {}
           /\ \A n \in Endpoint : m \in DOMAIN D[n].ep => ~IsNow(D[n].ep[m].pid, s + 1)
           /\ \A n \in Endpoint : \A j : ~Comes(I[n], m, s + 1, j)
<1>1. /\ Good(D, I, P, W, s, at, mk) /\ m \in Endpoint /\ ~IsCentral(m) /\ P[m] = 0
      /\ Base(D, I, P, W, s) /\ D1[m] = EmptyDb(m, s + 1)
  BY DEF Launching, Modules, Good
<1>2. s \in Nat /\ s + 1 \in Nat /\ Proc(D, m) <= s /\ 1 <= Proc(D, m) /\ Proc(D, m) \in Nat
  BY <1>1, ModuleFacts DEF Base
<1>3. /\ IsDb(D1[m]) /\ DOMAIN D1[m].ep = {m} /\ D1[m].nextID = 1
      /\ D1[m].ep[m] = [id |-> 0, recv |-> 0, sent |-> 0, full |-> TRUE, pid |-> s + 1]
      /\ \A k \in Key : D1[m].entry[k] = NoEntry
  <2>1. SUFFICES ASSUME NEW p \in Nat, p = s + 1, D1[m] = EmptyDb(m, p)
                 PROVE  /\ IsDb(D1[m]) /\ DOMAIN D1[m].ep = {m} /\ D1[m].nextID = 1
                        /\ D1[m].ep[m] = [id |-> 0, recv |-> 0, sent |-> 0, full |-> TRUE, pid |-> p]
                        /\ \A k \in Key : D1[m].entry[k] = NoEntry
    BY <1>1, <1>2
  <2>2. /\ IsDb(EmptyDb(m, p)) /\ \A k \in Key : EmptyDb(m, p).entry[k] = NoEntry
        /\ DOMAIN EmptyDb(m, p).ep = {m}
        /\ EmptyDb(m, p).ep[m] = [id |-> 0, recv |-> 0, sent |-> 0, full |-> TRUE, pid |-> p]
        /\ EmptyDb(m, p).nextID = 1
    BY <1>1, EmptyDbIs
  <2>3. QED
    BY <2>1, <2>2
<1>4. \A k \in Key : D1[m].entry[k].val = Nil /\ ~D1[m].entry[k].has /\ D1[m].entry[k].seq = 0
  BY <1>3 DEF NoEntry
<1>5. \A e : OwnedBy(D1[m], e) = {}
  BY <1>4 DEF OwnedBy
<1>6. Proc(D1, m) = s + 1
  BY <1>3 DEF Proc
<1>7. \A n \in Endpoint : n # m => Proc(D1, n) = Proc(D, n)
  BY DEF Launching, Proc
<1>8. \A x \in Nat : x <= Proc(D, m) => ~IsNow(x, s + 1)
  BY <1>2 DEF IsNow
<1>9. ASSUME NEW n \in Endpoint, m \in DOMAIN D[n].ep PROVE ~IsNow(D[n].ep[m].pid, s + 1)
  BY <1>1, <1>9, ModuleFacts, RecordIs, <1>8 DEF Base, Processes, PidFits
<1>10. ASSUME NEW n \in Endpoint, NEW j, Comes(I[n], m, s + 1, j) PROVE FALSE
  BY <1>10, <1>1, ModuleFacts, UpdateIs, <1>8 DEF Comes, About, Base, Proper
<1>11. s + 1 # 1
  BY <1>2
<1>12. QED
  BY <1>1, <1>2, <1>3, <1>4, <1>5, <1>6, <1>7, <1>9, <1>10, <1>11

LEMMA LaunchBase ==
    ASSUME NEW D, NEW I, NEW P, NEW W, NEW s, NEW at, NEW mk, NEW m, NEW D1, NEW I1, NEW P1, NEW W1, NEW at1, NEW mk1,
           Launching(D, I, P, W, s, at, mk, m, D1, I1, P1, W1, at1, mk1)
    PROVE  /\ Base(D1, I1, P1, W1, s) /\ Marked(I1, W1, at1, mk1) /\ Keys(D1, I1, W1) /\ Notified(D1)
<1>1. /\ Good(D, I, P, W, s, at, mk) /\ m \in Endpoint /\ ~IsCentral(m) /\ P[m] = 0
      /\ Base(D, I, P, W, s) /\ Marked(I, W, at, mk) /\ Keys(D, I, W) /\ Notified(D)
  BY LaunchFacts DEF Good
<1>2. \A n \in Endpoint : n # m => P1[n] = P[n] /\ D1[n] = D[n] /\ I1[n] = I[n] /\ W1[n] = W[n] /\ mk1[n] = mk[n]
  BY DEF Launching
<1>3. P1[m] = s + 1 /\ I1[m] = <<>> /\ W1[m] = <<>> /\ mk1[m] = <<>> /\ Len(I1[m]) = 0 /\ Len(W1[m]) = 0 /\ Len(mk1[m]) = 0
  BY DEF Launching
<1>4. /\ s \in Nat /\ Proc(D1, m) = s + 1 /\ Proc(D, m) <= s /\ Proc(D, m) \in Nat
      /\ \A n \in Endpoint : n # m => Proc(D1, n) = Proc(D, n)
  BY LaunchFacts
<1>5. /\ IsDb(D1[m]) /\ DOMAIN D1[m].ep = {m} /\ D1[m].nextID = 1
      /\ D1[m].ep[m].id = 0 /\ D1[m].ep[m].recv = 0 /\ D1[m].ep[m].sent = 0 /\ D1[m].ep[m].pid = s + 1
      /\ \A k \in Key : D1[m].entry[k].val = Nil /\ ~D1[m].entry[k].has /\ D1[m].entry[k].seq = 0
      /\ \A e : OwnedBy(D1[m], e) = {}
  BY LaunchFacts
<1>6. ASSUME NEW n \in Endpoint PROVE IsDb(D1[n]) /\ Numbered(D1[n], n, W1[n])
  <2>1. CASE n = m
    <3>1. Numbered(D1[m], m, W1[m])
      BY <1>5, <1>3 DEF Numbered
    <3>2. QED
      BY <3>1, <2>1, <1>5
  <2>2. CASE n # m
    BY <2>2, <1>1, <1>2, ModuleFacts
  <2>3. QED
    BY <2>1, <2>2
<1>7. CentralOf(m) \in Endpoint /\ CentralOf(m) # m /\ \A n \in Endpoint : Direct(n, m) => n = CentralOf(m)
  BY <1>1, Places DEF Direct
<1>8. ASSUME NEW n \in Endpoint, NEW e \in DOMAIN D1[n].ep PROVE PidFits(D1, n, e, D1[n].ep[e].pid)
  <2>1. CASE n = m
    BY <2>1, <1>5, <1>8, <1>1, <1>4 DEF Direct, PidFits
  <2>2. CASE n # m
    <3>1. D1[n] = D[n] /\ e \in DOMAIN D[n].ep /\ IsDb(D[n])
      BY <2>2, <1>1, <1>2, <1>8, ModuleFacts
    <3>2. PidFits(D, n, e, D[n].ep[e].pid)
      BY <3>1, <1>1 DEF Base, Processes
    <3>3. CASE e = m
      <4>1. ~Direct(n, m)
        BY <3>1, <3>3, <1>7 DEF Launching
      <4>2. D[n].ep[m].pid \in Nat
        BY <3>1, <3>3, RecordIs
      <4>3. D[n].ep[m].pid <= Proc(D1, m)
        BY <3>2, <3>3, <4>2, <1>4 DEF PidFits
      <4>4. QED
        BY <3>1, <3>2, <3>3, <4>1, <4>3 DEF PidFits
    <3>4. CASE e # m
      BY <3>1, <3>4, <1>4, RecordIs, <3>2 DEF PidFits
    <3>5. QED
      BY <3>3, <3>4
  <2>3. QED
    BY <2>1, <2>2
<1>9. ASSUME NEW n \in Endpoint, NEW j \in 1..Len(I1[n]) PROVE Proper(D1, n, I1[n][j])
  <2>1. n # m
    BY <1>3, <1>9
  <2>2. j \in 1..Len(I[n]) /\ I1[n] = I[n]
    BY <2>1, <1>2, <1>9
  <2>3. PICK x \in Message : x = I[n][j]
    BY <2>2, <1>1, ModuleFacts
  <2>4. Proper(D, n, x)
    BY <2>2, <2>3, <1>1 DEF Base
  <2>5. SUFFICES ASSUME x.type = "update" PROVE Proper(D1, n, x)
    BY <2>2, <2>3 DEF Proper
  <2>6. x.pid \in Nat /\ x.from \in Endpoint
    BY <2>5, UpdateIs
  <2>7. CASE x.from = m
    <3>1. ~Direct(n, m)
      BY <2>2, <2>3, <2>5, <2>7, <1>7 DEF Launching, About
    <3>2. x.pid <= Proc(D1, m)
      BY <2>4, <2>5, <2>6, <2>7, <1>4 DEF Proper
    <3>3. QED
      BY <3>1, <3>2, <2>4, <2>5, <2>7 DEF Proper
  <2>8. CASE x.from # m
    BY <2>6, <2>8, <1>4, <2>4, <2>5 DEF Proper
  <2>9. QED
    BY <2>7, <2>8
<1>10. ASSUME NEW e \in Endpoint
       PROVE  /\ P1[e] \in {0, Proc(D1, e)} /\ 1 <= Proc(D1, e) /\ Proc(D1, e) <= s + 1
              /\ P1[e] = 0 => Proc(D1, e) <= s
              /\ IsCentral(e) => P1[e] = 1
  BY <1>1, <1>3, <1>4, <1>2 DEF Base
<1>11. Base(D1, I1, P1, W1, s)
  BY <1>6, <1>8, <1>9, <1>10, <1>4 DEF Base, Processes, Launching
<1>12. Marked(I1, W1, at1, mk1)
  BY <1>3, <1>1, <1>2 DEF Launching, Marked
<1>13. Keys(D1, I1, W1)
  BY <1>3, <1>2, <1>1, <1>5 DEF Keys
<1>14. Notified(D1)
  BY <1>1, <1>2 DEF Notified
<1>15. QED
  BY <1>11, <1>12, <1>13, <1>14

LEMMA LaunchOthers ==
    ASSUME NEW D, NEW I, NEW P, NEW W, NEW s, NEW at, NEW mk, NEW m, NEW D1, NEW I1, NEW P1, NEW W1, NEW at1, NEW mk1,
           Launching(D, I, P, W, s, at, mk, m, D1, I1, P1, W1, at1, mk1)
    PROVE  \A f \in Endpoint : f # m => D1[f] = D[f] /\ P1[f] = P[f] /\ I1[f] = I[f] /\ W1[f] = W[f] /\ mk1[f] = mk[f]
                                        /\ Proc(D1, f) = Proc(D, f)
BY DEF Launching, Proc

LEMMA LaunchPlaces ==
    ASSUME NEW D, NEW I, NEW P, NEW W, NEW s, NEW at, NEW mk, NEW m, NEW D1, NEW I1, NEW P1, NEW W1, NEW at1, NEW mk1,
           Launching(D, I, P, W, s, at, mk, m, D1, I1, P1, W1, at1, mk1),
           NEW n \in Endpoint, NEW e \in Endpoint
    PROVE  /\ (n # m /\ e # m) => Source(n, e) # m /\ (Live(D1, P1, n, e) <=> Live(D, P, n, e))
                                  /\ (Forwards(D1, P1, n, e) <=> Forwards(D, P, n, e))
           /\ e = m => ~(Proc(D1, e) = 1)
           /\ (n = m /\ e # m) => Source(n, e) = CentralOf(m) /\ Source(n, e) # m
                                  /\ ~Linked(n, e, D1[Source(n, e)])
           /\ (e = m /\ n # m) => Direct(n, e) \/ (Source(n, e) # m /\ D1[Source(n, e)] = D[Source(n, e)])
<1>1. m \in Endpoint /\ ~IsCentral(m) /\ Proc(D1, m) # 1
  BY LaunchFacts
<1>2. CentralOf(m) \in Endpoint /\ CentralOf(m) # m /\ m \notin DOMAIN D[CentralOf(m)].ep
  BY <1>1, Places DEF Launching
<1>3. Source(n, e) = e \/ (Source(n, e) \in Endpoint /\ IsCentral(Source(n, e)))
  BY Places DEF Source
<1>4. \A f \in Endpoint : f # m => D1[f] = D[f] /\ P1[f] = P[f] /\ Proc(D1, f) = Proc(D, f)
  BY LaunchOthers
<1>5. ASSUME n # m, e # m
      PROVE  /\ Source(n, e) # m /\ (Live(D1, P1, n, e) <=> Live(D, P, n, e))
             /\ (Forwards(D1, P1, n, e) <=> Forwards(D, P, n, e))
  BY <1>1, <1>3, <1>5, <1>4 DEF Live, Forwards
<1>6. ASSUME n = m, e # m
      PROVE  Source(n, e) = CentralOf(m) /\ Source(n, e) # m /\ ~Linked(n, e, D1[Source(n, e)])
  BY <1>1, <1>6, <1>2, <1>4 DEF Source, Linked, Direct
<1>7. ASSUME e = m, n # m, ~Direct(n, e) PROVE Source(n, e) # m /\ D1[Source(n, e)] = D[Source(n, e)]
  BY <1>1, <1>7, Places, <1>4 DEF Source, Direct
<1>8. QED
  BY <1>1, <1>5, <1>6, <1>7

LEMMA LaunchPair ==
    ASSUME NEW D, NEW I, NEW P, NEW W, NEW s, NEW at, NEW mk, NEW m, NEW D1, NEW I1, NEW P1, NEW W1, NEW at1, NEW mk1,
           Launching(D, I, P, W, s, at, mk, m, D1, I1, P1, W1, at1, mk1),
           NEW n \in Endpoint, NEW e \in Endpoint, NEW z, z = Source(n, e)
    PROVE  /\ Live(D1, P1, n, e) => Copy(e, D1[n], at1[n][e], W1[e], Proc(D1, e))
           /\ Forwards(D1, P1, n, e) => Owned(e, D1[n], at1[n][e], W1[e])
           /\ (n # e /\ Live(D1, P1, n, e)) =>
                 Flow(n, e, I1[n], mk1[n], D1[n], at1[n][e], W1[e], Proc(D1, e), at1[z][e])
           /\ (n # e /\ Live(D1, P1, n, e) /\ Linked(n, e, D1[z])) =>
                 Sent(n, e, I1[n], mk1[n], D1[n], at1[n][e], W1[e], Proc(D1, e), D1[z], at1[z][e])
           /\ (n # e /\ P1[n] # 0 /\ ~Linked(n, e, D1[z])) => Nothing(e, I1[n], D1[n], at1[n][e])
<1>1. /\ Good(D, I, P, W, s, at, mk) /\ m \in Endpoint /\ ~IsCentral(m)
      /\ DOMAIN D1[m].ep = {m} /\ D1[m].ep[m].recv = 0
      /\ \A k \in Key : D1[m].entry[k].val = Nil
      /\ \A f : OwnedBy(D1[m], f) = {}
      /\ Proc(D1, m) = s + 1 /\ s + 1 # 1
  BY LaunchFacts
<1>2. \A f \in Endpoint : f # m => D1[f] = D[f] /\ P1[f] = P[f] /\ I1[f] = I[f] /\ W1[f] = W[f] /\ mk1[f] = mk[f]
                                   /\ Proc(D1, f) = Proc(D, f)
  BY LaunchOthers
<1>3. I1[m] = <<>> /\ W1[m] = <<>> /\ Len(I1[m]) = 0 /\ Len(W1[m]) = 0
  BY DEF Launching
<1>4. z \in Endpoint /\ \A f, g \in Endpoint : at1[f][g] = IF f = m \/ g = m THEN 0 ELSE at[f][g]
  BY Places DEF Launching
<1>5. at1[z][e] \in Nat /\ at1[n][e] \in Nat
  BY <1>4 DEF Launching
<1>6. KeysOf(e) \subseteq Key
  BY DEF KeysOf
<1>7. CASE n # m /\ e # m
  BY <1>7, LaunchPlaces, <1>2, <1>4, <1>1 DEF Good, Copying, Owning, Flowing, Sending, Starting
<1>8. CASE n = m
  <2>1. at1[n][e] = 0 /\ I1[n] = <<>> /\ Len(I1[n]) = 0
    BY <1>3, <1>4, <1>8
  <2>2. \A i : i \notin 1..0
    OBVIOUS
  <2>3. Copy(e, D1[n], 0, W1[e], Proc(D1, e))
    BY <1>1, <1>8, <1>6, <2>2 DEF Launching, Copy
  <2>4. Owned(e, D1[n], at1[n][e], W1[e])
    BY <1>1, <1>8 DEF Owned
  <2>5. Flow(n, e, I1[n], mk1[n], D1[n], 0, W1[e], Proc(D1, e), at1[z][e])
    BY <1>5, <2>1, <2>2 DEF Flow, Whole, InOrder
  <2>6. Nothing(e, I1[n], D1[n], 0)
    BY <2>1, <2>2, <1>1, <1>6, <1>8 DEF Nothing
  <2>7. n # e => ~Linked(n, e, D1[z])
    BY <1>8, LaunchPlaces
  <2>8. QED
    BY <2>1, <2>3, <2>4, <2>5, <2>6, <2>7
<1>9. CASE n # m /\ e = m
  <2>1. D1[n] = D[n] /\ P1[n] = P[n] /\ I1[n] = I[n] /\ W1[e] = <<>> /\ Len(W1[e]) = 0
        /\ at1[n][e] = 0 /\ at1[z][e] = 0 /\ Proc(D1, e) = s + 1
    BY <1>1, <1>2, <1>3, <1>4, <1>9
  <2>2. \A i : i \notin 1..0
    OBVIOUS
  <2>3. m \in DOMAIN D[n].ep => ~IsNow(D[n].ep[m].pid, s + 1)
    BY LaunchFacts
  <2>4. \A j : ~Comes(I[n], m, s + 1, j)
    BY LaunchFacts
  <2>5. Copy(e, D1[n], 0, W1[e], Proc(D1, e))
    BY <2>1, <2>3, <1>9, <1>1, <2>2 DEF Copy
  <2>6. Forwards(D1, P1, n, e) => Owned(e, D1[n], at1[n][e], W1[e])
    <3>1. SUFFICES ASSUME Forwards(D1, P1, n, e) PROVE e \notin DOMAIN D1[n].ep
      BY DEF Owned
    <3>2. IsCentral(n) /\ Local(n, e)
      BY <3>1, <2>1, <1>1, <1>9 DEF Forwards
    <3>3. n = CentralOf(m)
      BY <3>2, <1>9, Places
    <3>4. QED
      BY <3>3, <2>1, <1>9 DEF Launching
  <2>7. Flow(n, e, I1[n], mk1[n], D1[n], 0, W1[e], Proc(D1, e), at1[z][e])
    BY <2>1, <2>4, <1>9 DEF Flow, Whole, InOrder
  <2>8. Sent(n, e, I1[n], mk1[n], D1[n], 0, W1[e], Proc(D1, e), D1[z], at1[z][e])
    BY <2>1, <2>2 DEF Sent
  <2>9. ASSUME n # e, P1[n] # 0, ~Linked(n, e, D1[z]) PROVE Nothing(e, I1[n], D1[n], at1[n][e])
    BY <2>9, <1>9, LaunchPlaces, <2>1, <1>1 DEF Linked, Good, Starting, Nothing
  <2>10. QED
    BY <2>1, <2>5, <2>6, <2>7, <2>8, <2>9
<1>10. QED
  BY <1>7, <1>8, <1>9

LEMMA LaunchClearing ==
    ASSUME NEW D, NEW I, NEW P, NEW W, NEW s, NEW at, NEW mk, NEW m, NEW D1, NEW I1, NEW P1, NEW W1, NEW at1, NEW mk1,
           Launching(D, I, P, W, s, at, mk, m, D1, I1, P1, W1, at1, mk1)
    PROVE  Clearing(D1, I1, P1, W1, at1)
<1>1. /\ Good(D, I, P, W, s, at, mk) /\ m \in Endpoint /\ ~IsCentral(m)
      /\ DOMAIN D1[m].ep = {m} /\ Proc(D1, m) = s + 1 /\ s + 1 # 1
  BY LaunchFacts
<1>2. \A f \in Endpoint : f # m => D1[f] = D[f] /\ P1[f] = P[f] /\ I1[f] = I[f] /\ W1[f] = W[f]
                                   /\ Proc(D1, f) = Proc(D, f)
  BY LaunchOthers
<1>3. Len(I1[m]) = 0
  BY DEF Launching
<1>4. \A f, g \in Endpoint : at1[f][g] = IF f = m \/ g = m THEN 0 ELSE at[f][g]
  BY DEF Launching
<1>5. \A i : i \notin 1..0
  OBVIOUS
<1>6. SUFFICES ASSUME NEW f \in Modules, P1[f] # 0
               PROVE  /\ Uncleared(D1, at1, W1, f)
                      /\ \A n \in Endpoint : (n # f /\ n # CentralOf(f) /\ Live(D1, P1, n, f)) =>
                            ClearedFirst(n, f, I1[n], at1[n][f], W1[f], Proc(D1, f))
                      /\ Proc(D1, f) = 1 => NeverCleared(D1, I1, f)
  BY DEF Clearing
<1>7. f \in Endpoint /\ CentralOf(f) \in Endpoint /\ CentralOf(f) # m
  BY <1>1, Places DEF Modules
<1>8. D1[CentralOf(f)] = D[CentralOf(f)]
  BY <1>2, <1>7
<1>9. CASE f = m
  <2>1. Uncleared(D1, at1, W1, f)
    BY <1>4, <1>7, <1>9, <1>5, <1>8 DEF Launching, Uncleared
  <2>2. ASSUME NEW n \in Endpoint, n # f PROVE ClearedFirst(n, f, I1[n], at1[n][f], W1[f], Proc(D1, f))
    <3>1. at1[n][f] = 0 /\ I1[n] = I[n] /\ Proc(D1, f) = s + 1
      BY <1>1, <1>2, <1>4, <1>9, <2>2
    <3>2. \A j : ~Comes(I1[n], f, Proc(D1, f), j)
      BY <3>1, <1>9, LaunchFacts
    <3>3. QED
      BY <3>1, <3>2, <1>5 DEF ClearedFirst
  <2>3. Proc(D1, f) # 1
    BY <1>1, <1>9
  <2>4. QED
    BY <2>1, <2>2, <2>3
<1>10. CASE f # m
  <2>1. /\ Uncleared(D, at, W, f)
        /\ \A n \in Endpoint : (n # f /\ n # CentralOf(f) /\ Live(D, P, n, f)) =>
              ClearedFirst(n, f, I[n], at[n][f], W[f], Proc(D, f))
        /\ Proc(D, f) = 1 => NeverCleared(D, I, f)
    BY <1>1, <1>2, <1>6, <1>7, <1>10 DEF Good, Clearing
  <2>2. W1[f] = W[f] /\ Proc(D1, f) = Proc(D, f) /\ at1[CentralOf(f)][f] = at[CentralOf(f)][f]
    BY <1>2, <1>4, <1>7, <1>10
  <2>3. Uncleared(D1, at1, W1, f)
    BY <2>1, <2>2, <1>8 DEF Uncleared
  <2>4. ASSUME NEW n \in Endpoint, n # f, n # CentralOf(f), Live(D1, P1, n, f)
        PROVE  ClearedFirst(n, f, I1[n], at1[n][f], W1[f], Proc(D1, f))
    BY <1>3, <1>5, <2>4, <1>2, <1>4, <1>7, <1>10, LaunchPlaces, <2>1, <2>2 DEF ClearedFirst
  <2>5. ASSUME NeverCleared(D, I, f) PROVE NeverCleared(D1, I1, f)
    BY <1>1, <1>3, <1>5, <1>7, <2>5, <1>2 DEF NeverCleared
  <2>6. QED
    BY <2>1, <2>2, <2>3, <2>4, <2>5
<1>11. QED
  BY <1>9, <1>10

LEMMA LaunchKeeps ==
    ASSUME NEW D, NEW I, NEW P, NEW W, NEW s, NEW at, NEW mk, NEW m, NEW D1, NEW I1, NEW P1, NEW W1, NEW at1, NEW mk1,
           Launching(D, I, P, W, s, at, mk, m, D1, I1, P1, W1, at1, mk1)
    PROVE  Good(D1, I1, P1, W1, s, at1, mk1)
<1>1. /\ Base(D1, I1, P1, W1, s) /\ Marked(I1, W1, at1, mk1) /\ Keys(D1, I1, W1) /\ Notified(D1)
      /\ Clearing(D1, I1, P1, W1, at1)
  BY LaunchBase, LaunchClearing
<1>2. Copying(D1, P1, W1, at1) /\ Owning(D1, P1, W1, at1)
  BY LaunchPair DEF Copying, Owning
<1>3. Flowing(D1, I1, P1, W1, at1, mk1) /\ Sending(D1, I1, P1, W1, at1, mk1)
  BY LaunchPair DEF Flowing, Sending
<1>4. Starting(D1, I1, P1, at1)
  BY LaunchPair DEF Starting
<1>5. QED
  BY <1>1, <1>2, <1>3, <1>4 DEF Good

-----------------------------------------------------------------------------
(* What the engine's delta has in it.                                      *)

LEMMA SameNews ==
    ASSUME NEW d, NEW d1, d1.ep = d.ep, d1.entry = d.entry, NEW p, NEW n, NEW e
    PROVE  /\ OwnedBy(d1, e) = OwnedBy(d, e) /\ Changed(d1, e) = Changed(d, e) /\ Full(d1, e) = Full(d, e)
           /\ Told(p, d1, n, e) <=> Told(p, d, n, e)
           /\ Wide(p, d1, n) <=> Wide(p, d, n)
           /\ Part(p, d1, n, e) = Part(p, d, n, e)
           /\ Stubs(p, d1) = Stubs(p, d)
           /\ \A m, K : IsNews(m, d1, e, K) <=> IsNews(m, d, e, K)
<1>1. \A x : OwnedBy(d1, x) = OwnedBy(d, x)
  BY DEF OwnedBy
<1>2. \A x : Changed(d1, x) = Changed(d, x) /\ Full(d1, x) = Full(d, x)
  BY <1>1 DEF Changed, Full
<1>3. (Told(p, d1, n, e) <=> Told(p, d, n, e)) /\ (Wide(p, d1, n) <=> Wide(p, d, n))
  BY DEF Told, Wide
<1>4. Part(p, d1, n, e) = Part(p, d, n, e)
  BY <1>2, <1>3 DEF Part
<1>5. Stubs(p, d1) = Stubs(p, d)
  BY <1>1, <1>2 DEF Stubs
<1>6. \A m, K : IsNews(m, d1, e, K) <=> IsNews(m, d, e, K)
  BY DEF IsNews
<1>7. QED
  BY <1>1, <1>2, <1>3, <1>4, <1>5, <1>6

(* z is what p, whose database is d, sends n. *)
IsDelta(z, p, d, n) ==
    /\ z \in Seq(Message)
    /\ \A j \in 1..Len(z) : \E e \in Endpoint : Told(p, d, n, e) /\ IsNews(z[j], d, e, Part(p, d, n, e))
    /\ \A e \in Endpoint : (Told(p, d, n, e) /\ (Wide(p, d, n) \/ Changed(d, e) # {})) =>
          \E j \in 1..Len(z) : About(z[j], e)

LEMMA NoDelta ==
    ASSUME NEW p, NEW d, NEW n, \A e \in Endpoint : Told(p, d, n, e) => ~Wide(p, d, n) /\ Changed(d, e) = {}
    PROVE  IsDelta(<<>>, p, d, n)
<1>1. \A j : j \notin 1..Len(<<>>)
  OBVIOUS
<1>2. <<>> \in Seq(Message)
  OBVIOUS
<1>3. QED
  BY <1>1, <1>2 DEF IsDelta

LEMMA PayloadsDelta ==
    ASSUME NEW p \in Endpoint, IsCentral(p), NEW d, IsDb(d), NEW n \in DOMAIN d.ep, NEW E, E \subseteq DOMAIN d.ep,
           \A e \in Endpoint : Told(p, d, n, e) <=> e \in E
    PROVE  IsDelta(PayloadsFor(d, n, E), p, d, n)
<1> DEFINE K == [e \in E |-> Part(p, d, n, e)]
<1>1. \A e \in E : Part(p, d, n, e) = IF d.ep[n].full THEN Full(d, e) ELSE Changed(d, e)
  BY DEF Part, Wide
<1>2. \A e \in E : Part(p, d, n, e) \subseteq Key
  BY PartIs
<1>3. K \in [E -> SUBSET Key] /\ \A e \in E : K[e] = Part(p, d, n, e)
  BY <1>2
<1>4. E \subseteq Endpoint
  BY RecordIs
<1> HIDE DEF K
<1>5. SUFFICES ASSUME NEW z, z = PayloadsFor(d, n, E) PROVE IsDelta(z, p, d, n)
  OBVIOUS
<1>6. /\ z \in Seq(Message)
      /\ \A j \in 1..Len(z) : \E e \in E : IsNews(z[j], d, e, K[e])
      /\ \A e \in E : (d.ep[n].full \/ Changed(d, e) # {}) => \E j \in 1..Len(z) : IsNews(z[j], d, e, K[e])
  BY <1>1, <1>3, <1>5, PayloadsAre
<1>7. ASSUME NEW j \in 1..Len(z) PROVE \E e \in Endpoint : Told(p, d, n, e) /\ IsNews(z[j], d, e, Part(p, d, n, e))
  BY <1>6, <1>3, <1>4
<1>8. ASSUME NEW e \in Endpoint, Told(p, d, n, e), Wide(p, d, n) \/ Changed(d, e) # {}
      PROVE  \E j \in 1..Len(z) : About(z[j], e)
  BY <1>8, <1>6 DEF Wide, IsNews, About
<1>9. QED
  BY <1>6, <1>7, <1>8 DEF IsDelta

LEMMA DeltaIs ==
    ASSUME NEW p \in Endpoint, NEW d, IsDb(d), p \in DOMAIN d.ep, NEW n \in Endpoint,
           Changed(d, p) # {} => d.ep[p].recv > d.ep[p].sent
    PROVE  IsDelta(DeltaFor(p, d, n), p, d, n)
<1>1. CASE ~IsCentral(p) /\ n = CentralOf(p) /\ d.ep[p].recv > d.ep[p].sent
  <2>1. \A e \in Endpoint : Told(p, d, n, e) <=> e = p
    BY <1>1 DEF Told
  <2>2. Part(p, d, n, p) = Changed(d, p) /\ Changed(d, p) \subseteq Key
    BY <1>1 DEF Part, Wide, Changed, OwnedBy
  <2>3. PICK m : m = Update(d, p, Changed(d, p))
    OBVIOUS
  <2>4. IsNews(m, d, p, Part(p, d, n, p))
    BY <2>2, <2>3, UpdateNews
  <2>5. m \in Message /\ About(m, p)
    BY <2>4 DEF IsNews, About
  <2>6. DeltaFor(p, d, n) = <<m>>
    BY <1>1, <2>3 DEF DeltaFor
  <2>7. <<m>> \in Seq(Message) /\ Len(<<m>>) = 1 /\ <<m>>[1] = m
    BY <2>5
  <2>8. \A j \in 1..1 : j = 1
    OBVIOUS
  <2>9. IsDelta(<<m>>, p, d, n)
    BY <2>1, <2>4, <2>5, <2>7, <2>8 DEF IsDelta
  <2>10. QED
    BY <2>6, <2>9
<1>2. CASE ~IsCentral(p) /\ ~(n = CentralOf(p) /\ d.ep[p].recv > d.ep[p].sent)
  BY <1>2, NoDelta DEF DeltaFor, Told, Wide
<1>3. CASE IsCentral(p) /\ (n = p \/ n \notin DOMAIN d.ep)
  BY <1>3, NoDelta DEF DeltaFor, Told
<1>4. CASE IsCentral(p) /\ n # p /\ n \in DOMAIN d.ep /\ Local(p, n)
  BY <1>4, PayloadsDelta DEF DeltaFor, Told
<1>5. CASE IsCentral(p) /\ n # p /\ n \in DOMAIN d.ep /\ ~Local(p, n) /\ IsCentral(n)
  BY <1>5, PayloadsDelta DEF DeltaFor, Told
<1>6. CASE IsCentral(p) /\ n # p /\ n \in DOMAIN d.ep /\ ~Local(p, n) /\ ~IsCentral(n)
  BY <1>6, NoDelta DEF DeltaFor, Told
<1>7. QED
  BY <1>1, <1>2, <1>3, <1>4, <1>5, <1>6

(* p's engine sends the deltas of d, which has all of D[p] but the event.  *)
LEMMA SpreadDelta ==
    ASSUME NEW D, NEW I, NEW P, NEW W, NEW s, NEW at, NEW mk, Good(D, I, P, W, s, at, mk),
           NEW p \in Endpoint, P[p] # 0, NEW d, IsDb(d), d.ep = D[p].ep, d.entry = D[p].entry, d.nextID = D[p].nextID
    PROVE  \A n \in Endpoint : IsDelta(DeltaFor(p, d, n), p, D[p], n) /\ DeltaFor(p, d, n) \in Seq(Message)
<1>1. IsDb(D[p]) /\ p \in DOMAIN D[p].ep /\ D[p].ep[p].recv = Len(W[p]) /\ at[p][p] = Len(W[p]) /\ Len(W[p]) \in Nat
  BY ModuleFacts DEF Numbered
<1>2. Changed(d, p) # {} => d.ep[p].recv > d.ep[p].sent
  <2>1. SUFFICES ASSUME NEW k \in Changed(D[p], p) PROVE D[p].ep[p].recv > D[p].ep[p].sent
    BY SameNews
  <2>2. k \in OwnedBy(D[p], p) /\ D[p].entry[k].seq > D[p].ep[p].sent /\ k \in Key
    BY <2>1 DEF Changed, OwnedBy
  <2>3. Forwards(D, P, p, p)
    BY DEF Forwards
  <2>4. Owned(p, D[p], at[p][p], W[p])
    BY <2>3 DEF Good, Owning
  <2>5. D[p].entry[k].seq \in 1..Len(W[p])
    BY <2>2, <2>4, <1>1 DEF Owned
  <2>6. D[p].ep[p].sent \in Nat
    BY <1>1, RecordIs
  <2>7. QED
    BY <2>2, <2>5, <2>6, <1>1
<1>3. \A n \in Endpoint : IsDelta(DeltaFor(p, d, n), p, D[p], n)
  BY <1>1, <1>2, DeltaIs, SameNews DEF IsDelta
<1>4. QED
  BY <1>3 DEF IsDelta

(* D1 and I1 are D and I once p, whose database is d but for the event,    *)
(* has sent what is new.                                                   *)
Spreads(D, I, P, p, d, D1, I1) ==
    /\ p \in Endpoint /\ P[p] # 0
    /\ IsDb(d) /\ d.ep = D[p].ep /\ d.entry = D[p].entry /\ d.nextID = D[p].nextID
    /\ Total(D1) /\ D1[p] = AfterDelta(p, d) /\ \A n \in Endpoint : n # p => D1[n] = D[n]
    /\ Total(I1) /\ \A n \in Endpoint : I1[n] = I[n] \o (IF P[n] # 0 THEN DeltaFor(p, d, n) ELSE <<>>)

LEMMA SpreadStep ==
    ASSUME NEW D, NEW I, NEW P, NEW W, NEW s, NEW at, NEW mk, Good(D, I, P, W, s, at, mk),
           NEW p, NEW d, NEW D1, NEW I1, Spreads(D, I, P, p, d, D1, I1)
    PROVE  \E mk1 : Good(D1, I1, P, W, s, at, mk1)
<1> SUFFICES
      ASSUME p \in Endpoint, P[p] # 0, IsDb(d), d.ep = D[p].ep, d.entry = D[p].entry, d.nextID = D[p].nextID,
             Total(D1), D1[p] = AfterDelta(p, d), \A n \in Endpoint : n # p => D1[n] = D[n],
             Total(I1), \A n \in Endpoint : I1[n] = I[n] \o (IF P[n] # 0 THEN DeltaFor(p, d, n) ELSE <<>>)
      PROVE  \E mk1 : Good(D1, I1, P, W, s, at, mk1)
  BY Zenon DEF Spreads
<1>1. IsDb(D[p]) /\ p \in DOMAIN D[p].ep /\ D[p].ep[p].recv = Len(W[p]) /\ at[p][p] = Len(W[p]) /\ Len(W[p]) \in Nat
  BY ModuleFacts DEF Numbered
<1>3. \A n \in Endpoint : IsDelta(DeltaFor(p, d, n), p, D[p], n)
  BY SpreadDelta
<1>4. PICK z : /\ z = [n \in Endpoint |-> IF P[n] # 0 THEN DeltaFor(p, d, n) ELSE <<>>]
  OBVIOUS
<1>5. \A n \in Endpoint : z[n] = IF P[n] # 0 THEN DeltaFor(p, d, n) ELSE <<>>
  BY <1>4
<1>6. \A n \in Endpoint : z[n] \in Seq(Message) /\ (P[n] # 0 => IsDelta(z[n], p, D[p], n)) /\ (P[n] = 0 => z[n] = <<>>)
  <2>1. <<>> \in Seq(Message)
    OBVIOUS
  <2>2. QED
    BY <2>1, <1>3, <1>5 DEF IsDelta
<1>7. PICK mk1 : mk1 = [n \in Endpoint |-> mk[n] \o [j \in 1..Len(z[n]) |-> at[p][z[n][j].from]]]
  OBVIOUS
<1>8. ASSUME NEW n \in Endpoint
      PROVE  /\ I1[n] \in Seq(Message) /\ mk1[n] \in Seq(Nat) /\ Len(mk1[n]) = Len(I1[n])
             /\ Delivered(I1[n], mk1[n], I[n], mk[n], p, D[p], n, at[p])
             /\ IF P[n] = 0 THEN Len(I1[n]) = Len(I[n]) ELSE Complete(I1[n], I[n], p, D[p], n)
  <2>1. PICK q, m, x, y : q = I[n] /\ m = mk[n] /\ x = z[n] /\ y = [j \in 1..Len(x) |-> at[p][x[j].from]]
    OBVIOUS
  <2>2. /\ q \in Seq(Message) /\ m \in Seq(Nat) /\ Len(m) = Len(q) /\ x \in Seq(Message) /\ Len(q) \in Nat
    BY <2>1, <1>6, ModuleFacts
  <2>3. \A j \in 1..Len(x) : \E e \in Endpoint : Told(p, D[p], n, e) /\ IsNews(x[j], D[p], e, Part(p, D[p], n, e)) /\ P[n] # 0
    BY <2>1, <1>6 DEF IsDelta
  <2>4. \A j \in 1..Len(x) : x[j].from \in Endpoint /\ at[p][x[j].from] \in Nat
    BY <2>3, PairFacts DEF IsNews
  <2>5. y \in Seq(Nat) /\ Len(y) = Len(x) /\ \A j \in 1..Len(x) : y[j] = at[p][x[j].from]
    BY <2>2, <2>1, <2>4
  <2>6. /\ q \o x \in Seq(Message) /\ Len(q \o x) = Len(q) + Len(x) /\ Len(x) \in Nat
        /\ \A j \in 1..Len(q) : (q \o x)[j] = q[j]
        /\ \A j \in 1..Len(x) : (q \o x)[Len(q) + j] = x[j]
        /\ \A j \in 1..Len(q \o x) : j > Len(q) => j - Len(q) \in 1..Len(x) /\ (q \o x)[j] = x[j - Len(q)]
    BY <2>2, Concat
  <2>7. /\ m \o y \in Seq(Nat) /\ Len(m \o y) = Len(q) + Len(x)
        /\ \A j \in 1..Len(q) : (m \o y)[j] = m[j]
        /\ \A j \in 1..Len(m \o y) : j > Len(q) => (m \o y)[j] = y[j - Len(q)]
    <3>1. m \in Seq(Nat) /\ y \in Seq(Nat) /\ Len(m) = Len(q) /\ Len(y) = Len(x)
      BY <2>2, <2>5
    <3>2. /\ m \o y \in Seq(Nat) /\ Len(m \o y) = Len(m) + Len(y)
          /\ \A j \in 1..Len(m) : (m \o y)[j] = m[j]
          /\ \A j \in 1..Len(m \o y) : j > Len(m) => j - Len(m) \in 1..Len(y) /\ (m \o y)[j] = y[j - Len(m)]
      <4>1. PICK S : S = Nat
        OBVIOUS
      <4>2. m \in Seq(S) /\ y \in Seq(S)
        BY <4>1, <3>1
      <4>3. /\ m \o y \in Seq(S) /\ Len(m \o y) = Len(m) + Len(y)
            /\ \A j \in 1..Len(m) : (m \o y)[j] = m[j]
            /\ \A j \in 1..Len(m \o y) : j > Len(m) => j - Len(m) \in 1..Len(y) /\ (m \o y)[j] = y[j - Len(m)]
        BY <4>2, Concat
      <4>4. QED
        BY <4>1, <4>3
    <3>3. QED
      BY <3>1, <3>2
  <2>8. I1[n] = q \o x /\ mk1[n] = m \o y
    BY <2>1, <1>5, <1>7
  <2>9. Delivered(q \o x, m \o y, q, m, p, D[p], n, at[p])
    <3>1. Follows(q \o x, q) /\ \A j \in 1..Len(q) : (m \o y)[j] = m[j]
      BY <2>2, <2>6, <2>7 DEF Follows
    <3>2. ASSUME NEW j \in 1..Len(q \o x), j > Len(q)
          PROVE  \E e \in Endpoint : Told(p, D[p], n, e) /\ IsNews((q \o x)[j], D[p], e, Part(p, D[p], n, e)) /\ (m \o y)[j] = at[p][e]
      <4>a. j - Len(q) \in 1..Len(x) /\ (q \o x)[j] = x[j - Len(q)]
        BY <3>2, <2>6
      <4>b. j \in 1..Len(m \o y)
        BY <2>6, <2>7
      <4>c. (m \o y)[j] = y[j - Len(q)]
        BY <3>2, <4>b, <2>7
      <4>1. PICK l \in 1..Len(x) : l = j - Len(q) /\ (q \o x)[j] = x[l] /\ (m \o y)[j] = y[l]
        BY <4>a, <4>c
      <4>2. PICK e \in Endpoint : Told(p, D[p], n, e) /\ IsNews(x[l], D[p], e, Part(p, D[p], n, e))
        BY <2>3
      <4>3. y[l] = at[p][e]
        BY <4>2, <2>5 DEF IsNews
      <4>4. QED
        BY <4>1, <4>2, <4>3
    <3>3. QED
      BY <3>1, <3>2 DEF Delivered
  <2>10. CASE P[n] = 0
    <3>1. Len(x) = 0
      BY <2>1, <2>10, <1>6
    <3>2. QED
      <4>1. Len(q \o x) = Len(q) /\ Len(m \o y) = Len(q \o x)
        BY <3>1, <2>2, <2>6, <2>7
      <4>2. q \o x \in Seq(Message) /\ m \o y \in Seq(Nat)
        BY <2>6, <2>7
      <4>3. QED
        BY <4>1, <4>2, <2>1, <2>8, <2>9, <2>10
  <2>11. CASE P[n] # 0
    <3>1. Complete(q \o x, q, p, D[p], n)
      <4>1. SUFFICES ASSUME NEW e \in Endpoint, Told(p, D[p], n, e), Wide(p, D[p], n) \/ Changed(D[p], e) # {}
                     PROVE  \E j \in Len(q) + 1..Len(q \o x) : About((q \o x)[j], e)
        BY DEF Complete
      <4>2. PICK l \in 1..Len(x) : About(x[l], e)
        BY <4>1, <2>1, <2>11, <1>6 DEF IsDelta
      <4>3. Len(q) + l \in Len(q) + 1..Len(q \o x) /\ (q \o x)[Len(q) + l] = x[l]
        BY <2>2, <2>6
      <4>4. QED
        BY <4>2, <4>3
    <3>2. QED
      <4>1. Len(m \o y) = Len(q \o x)
        BY <2>6, <2>7
      <4>2. q \o x \in Seq(Message) /\ m \o y \in Seq(Nat)
        BY <2>6, <2>7
      <4>3. QED
        BY <4>1, <4>2, <3>1, <2>1, <2>8, <2>9, <2>11
  <2>12. QED
    BY <2>10, <2>11
<1>9. I1 \in [Endpoint -> Seq(Message)] /\ mk1 \in [Endpoint -> Seq(Nat)]
  BY <1>7, <1>8 DEF Total
<1>10. IsSpread(D1[p], p, D[p])
  <2>1. IsSpread(AfterDelta(p, d), p, d)
    BY AfterDeltaIs
  <2>2. Stubs(p, d) = Stubs(p, D[p])
    BY SameNews, Zenon
  <2>3. QED
    BY <2>1, <2>2 DEF IsSpread
<1>11. Spreading(D, I, P, W, s, at, mk, p, D1, I1, mk1)
  BY <1>8, <1>9, <1>10 DEF Spreading
<1>12. QED
  BY <1>11, SpreadKeeps

-----------------------------------------------------------------------------
(* Messages that say nothing of writes.                                    *)

LEMMA SameHarmless ==
    ASSUME NEW q, NEW m, Len(q) \in Nat
    PROVE  Harmless(q, m, q, m)
BY DEF Harmless, Adds, Follows

LEMMA AddsKeeps ==
    ASSUME NEW D, NEW I, NEW P, NEW W, NEW s, NEW at, NEW mk, Good(D, I, P, W, s, at, mk),
           NEW out, \A n \in Endpoint : out[n] \in Seq(Message) /\ \A j \in 1..Len(out[n]) : out[n][j].type # "update",
           NEW I1, Total(I1), \A n \in Endpoint : I1[n] = I[n] \o out[n]
    PROVE  \E mk1 : Good(D, I1, P, W, s, at, mk1)
<1>1. PICK mk1 : mk1 = [n \in Endpoint |-> mk[n] \o [j \in 1..Len(out[n]) |-> 0]]
  OBVIOUS
<1>2. ASSUME NEW n \in Endpoint
      PROVE  /\ I1[n] \in Seq(Message) /\ mk1[n] \in Seq(Nat) /\ Len(mk1[n]) = Len(I1[n])
             /\ Harmless(I1[n], mk1[n], I[n], mk[n])
  <2>1. PICK q, m, x, y, S : q = I[n] /\ m = mk[n] /\ x = out[n] /\ y = [j \in 1..Len(x) |-> 0] /\ S = Nat
    OBVIOUS
  <2>2. /\ q \in Seq(Message) /\ m \in Seq(S) /\ Len(m) = Len(q) /\ x \in Seq(Message) /\ Len(q) \in Nat
        /\ \A j \in 1..Len(x) : x[j].type # "update"
    BY <2>1, ModuleFacts
  <2>3. y \in Seq(S) /\ Len(y) = Len(x)
    BY <2>2, <2>1
  <2>4. /\ q \o x \in Seq(Message) /\ Len(q \o x) = Len(q) + Len(x) /\ Len(x) \in Nat
        /\ \A j \in 1..Len(q) : (q \o x)[j] = q[j]
        /\ \A j \in 1..Len(q \o x) : j > Len(q) => j - Len(q) \in 1..Len(x) /\ (q \o x)[j] = x[j - Len(q)]
    BY <2>2, Concat
  <2>5. /\ m \o y \in Seq(S) /\ Len(m \o y) = Len(m) + Len(y)
        /\ \A j \in 1..Len(m) : (m \o y)[j] = m[j]
    <3>1. m \in Seq(S) /\ y \in Seq(S)
      BY <2>2, <2>3
    <3>2. QED
      BY <3>1, Concat
  <2>6. I1[n] = q \o x /\ mk1[n] = m \o y
    BY <2>1, <1>1
  <2>7. Adds(q \o x, m \o y, q, m)
    BY <2>2, <2>4, <2>5 DEF Follows, Adds
  <2>8. Len(m \o y) = Len(q \o x)
    BY <2>2, <2>3, <2>4, <2>5
  <2>9. QED
    BY <2>1, <2>4, <2>5, <2>6, <2>7, <2>8 DEF Harmless
<1>3. I1 \in [Endpoint -> Seq(Message)] /\ mk1 \in [Endpoint -> Seq(Nat)]
  BY <1>1, <1>2 DEF Total
<1>4. QED
  BY <1>2, <1>3, InboxKeeps

LEMMA DropKeeps ==
    ASSUME NEW D, NEW I, NEW P, NEW W, NEW s, NEW at, NEW mk, Good(D, I, P, W, s, at, mk),
           NEW n \in Endpoint, NEW g \in 1..Len(I[n]), I[n][g].type = "update" => I[n][g].entries = {},
           NEW I1, Total(I1), I1[n] \in Seq(Message), Without(I1[n], I[n], g),
           \A x \in Endpoint : x # n => I1[x] = I[x]
    PROVE  \E mk1 : Good(D, I1, P, W, s, at, mk1)
<1>1. PICK y : y = [j \in 1..Len(I1[n]) |-> mk[n][Skip(g, j)]]
  OBVIOUS
<1>2. PICK mk1 : mk1 = [x \in Endpoint |-> IF x = n THEN y ELSE mk[x]]
  OBVIOUS
<1>3. Len(I1[n]) \in Nat /\ Len(I[n]) \in Nat
  BY ModuleFacts
<1>4. Skips(I1[n], I[n], g)
  BY <1>3, SkipIs
<1>5. \A j \in 1..Len(I1[n]) : mk[n][Skip(g, j)] \in Nat
  BY <1>4, ModuleFacts DEF Skips
<1>6. y \in Seq(Nat) /\ Len(y) = Len(I1[n]) /\ \A j \in 1..Len(I1[n]) : y[j] = mk[n][Skip(g, j)]
  BY <1>1, <1>5, <1>3
<1>7. Harmless(I1[n], y, I[n], mk[n])
  BY <1>6 DEF Harmless, Drops
<1>8. ASSUME NEW x \in Endpoint
      PROVE  /\ I1[x] \in Seq(Message) /\ mk1[x] \in Seq(Nat) /\ Len(mk1[x]) = Len(I1[x])
             /\ Harmless(I1[x], mk1[x], I[x], mk[x])
  BY <1>2, <1>6, <1>7, ModuleFacts, SameHarmless
<1>9. I1 \in [Endpoint -> Seq(Message)] /\ mk1 \in [Endpoint -> Seq(Nat)]
  BY <1>2, <1>8 DEF Total
<1>10. QED
  BY <1>8, <1>9, InboxKeeps

LEMMA TurnKeeps ==
    ASSUME NEW D, NEW I, NEW P, NEW W, NEW s, NEW at, NEW mk, Good(D, I, P, W, s, at, mk),
           NEW n \in Endpoint, NEW g \in 1..Len(I[n]) - 1, Apart(I[n][g], I[n][g + 1]),
           NEW I1, Total(I1), I1[n] \in Seq(Message), Turned(I1[n], I[n], g),
           \A x \in Endpoint : x # n => I1[x] = I[x]
    PROVE  \E mk1 : Good(D, I1, P, W, s, at, mk1)
<1>1. PICK y : y = [j \in 1..Len(I1[n]) |-> mk[n][Turn(g, j)]]
  OBVIOUS
<1>2. PICK mk1 : mk1 = [x \in Endpoint |-> IF x = n THEN y ELSE mk[x]]
  OBVIOUS
<1>3. Len(I1[n]) \in Nat /\ Len(I[n]) \in Nat
  BY ModuleFacts
<1>4. Len(I1[n]) = Len(I[n]) /\ \A j \in 1..Len(I[n]) : Turn(g, j) \in 1..Len(I[n])
  BY <1>3, TurnIs
<1>5. \A j \in 1..Len(I1[n]) : mk[n][Turn(g, j)] \in Nat
  BY <1>4, ModuleFacts
<1>6. y \in Seq(Nat) /\ Len(y) = Len(I1[n]) /\ \A j \in 1..Len(I1[n]) : y[j] = mk[n][Turn(g, j)]
  BY <1>1, <1>5, <1>3
<1>7. Harmless(I1[n], y, I[n], mk[n])
  BY <1>4, <1>6 DEF Harmless, Turns
<1>8. ASSUME NEW x \in Endpoint
      PROVE  /\ I1[x] \in Seq(Message) /\ mk1[x] \in Seq(Nat) /\ Len(mk1[x]) = Len(I1[x])
             /\ Harmless(I1[x], mk1[x], I[x], mk[x])
  <2>1. CASE x = n
    BY <2>1, <1>2, <1>6, <1>7
  <2>2. CASE x # n
    BY <2>2, <1>2, ModuleFacts, SameHarmless
  <2>3. QED
    BY <2>1, <2>2
<1>9. I1 \in [Endpoint -> Seq(Message)] /\ mk1 \in [Endpoint -> Seq(Nat)]
  BY <1>2, <1>8 DEF Total
<1>10. QED
  BY <1>8, <1>9, InboxKeeps

(* What n's engine has taken, and what is sent. *)
(* A message that is not an update is taken, and others may be sent. *)
Handles(I, n, out, I1) ==
    /\ n \in Endpoint /\ I[n] # <<>> /\ Head(I[n]).type # "update"
    /\ \A e \in Endpoint : out[e] \in Seq(Message) /\ \A j \in 1..Len(out[e]) : out[e][j].type # "update"
    /\ Total(I1) /\ \A e \in Endpoint : I1[e] = (IF e = n THEN Tail(I[e]) ELSE I[e]) \o out[e]

LEMMA HandleStep ==
    ASSUME NEW D, NEW I, NEW P, NEW W, NEW s, NEW at, NEW mk, Good(D, I, P, W, s, at, mk),
           NEW n, NEW out, NEW I1, Handles(I, n, out, I1)
    PROVE  \E mk1 : Good(D, I1, P, W, s, at, mk1)
<1> SUFFICES
      ASSUME n \in Endpoint, I[n] # <<>>, Head(I[n]).type # "update",
             \A e \in Endpoint : out[e] \in Seq(Message) /\ \A j \in 1..Len(out[e]) : out[e][j].type # "update",
             Total(I1), \A e \in Endpoint : I1[e] = (IF e = n THEN Tail(I[e]) ELSE I[e]) \o out[e]
      PROVE  \E mk1 : Good(D, I1, P, W, s, at, mk1)
  BY Zenon DEF Handles
<1>1. PICK I2 : I2 = [e \in Endpoint |-> IF e = n THEN Tail(I[e]) ELSE I[e]]
  OBVIOUS
<1>2. I2[n] = Tail(I[n]) /\ Total(I2) /\ \A e \in Endpoint : e # n => I2[e] = I[e]
  BY <1>1 DEF Total
<1>3. I[n] \in Seq(Message)
  BY ModuleFacts
<1>4. Tail(I[n]) \in Seq(Message) /\ Without(Tail(I[n]), I[n], 1) /\ Head(I[n]) = I[n][1]
  BY <1>3, TailIs
<1>5. PICK g \in 1..Len(I[n]) : g = 1
  BY <1>3
<1>6. PICK mk2 : Good(D, I2, P, W, s, at, mk2)
  <2>1. I[n][g].type = "update" => I[n][g].entries = {}
    BY <1>4, <1>5
  <2>2. I2[n] \in Seq(Message) /\ Without(I2[n], I[n], g)
    BY <1>2, <1>4, <1>5
  <2>3. QED
    BY <2>1, <2>2, <1>2, DropKeeps
<1>7. \A e \in Endpoint : I1[e] = I2[e] \o out[e]
  BY <1>1
<1>8. QED
  BY <1>6, <1>7, AddsKeeps

-----------------------------------------------------------------------------
(* The checkpoints that wait.                                              *)

MarkType == [end : Endpoint, seq : Nat, id : Nat \cup {NullID}]
CheckType == [for : Endpoint, id : Nat, wm : Watermarks]

IDOf(d, w) == IF w.id # NullID THEN w.id ELSE IF w.end \in DOMAIN d.ep THEN d.ep[w.end].id ELSE NullID
IsUpToDate(d, w) == w.seq = 0 \/ (IDOf(d, w) # NullID /\ UpTo(d, IDOf(d, w), w.seq))

(* What remains of the watermarks y once those before the i-th are reached. *)
Remains(z, d, y, i) ==
    /\ i \in 1..Len(y) /\ ~IsUpToDate(d, y[i]) /\ \A l \in 1..i - 1 : IsUpToDate(d, y[l])
    /\ Len(z) = Len(y) - i + 1
    /\ z[1].end = y[i].end /\ z[1].seq = y[i].seq /\ z[1].id = IDOf(d, y[i])
    /\ \A l \in 2..Len(z) : z[l] = y[l + i - 1]
IsStill(c1, d, c) ==
    /\ c1 \in CheckType /\ c1.for = c.for /\ c1.id = c.id
    /\ IF \A l \in 1..Len(c.wm) : IsUpToDate(d, c.wm[l]) THEN c1.wm = <<>>
       ELSE c1.wm # <<>> /\ \E i \in 1..Len(c.wm) : Remains(c1.wm, d, c.wm, i)

LEMMA MarkIs ==
    ASSUME NEW w \in MarkType, NEW v \in Nat \cup {NullID}, NEW u, u = [w EXCEPT !.id = v]
    PROVE  u \in MarkType /\ u.end = w.end /\ u.seq = w.seq /\ u.id = v
BY DEF MarkType

LEMMA RemainsIs ==
    ASSUME NEW d, IsDb(d), NEW y \in Seq(MarkType), NEW i \in 1..Len(y), ~IsUpToDate(d, y[i]),
           \A l \in 1..i - 1 : IsUpToDate(d, y[l]),
           NEW z, z = [SubSeq(y, i, Len(y)) EXCEPT ![1].id = IDOf(d, y[i])]
    PROVE  z \in Seq(MarkType) /\ Remains(z, d, y, i) /\ z # <<>>
<1>1. PICK g : g = SubSeq(y, i, Len(y))
  OBVIOUS
<1>2. PICK v : v = IDOf(d, y[i])
  OBVIOUS
<1>3. y[i] \in MarkType /\ Len(y) \in Nat
  OBVIOUS
<1>4. v \in Nat \cup {NullID}
  BY <1>2, <1>3, RecordIs DEF IDOf, MarkType
<1>5. PICK h : h = Len(y) - i + 1
  OBVIOUS
<1>6. h \in Nat /\ h >= 1 /\ Len(g) = h /\ \A l \in 1..h : g[l] = y[l + i - 1] /\ g[l] \in MarkType
  <2>1. Len(g) = h /\ h \in Nat /\ h >= 1
    BY <1>1, <1>3, <1>5
  <2>2. ASSUME NEW l \in 1..h PROVE g[l] = y[l + i - 1] /\ g[l] \in MarkType
    <3>1. l + i - 1 \in 1..Len(y)
      BY <1>3, <1>5
    <3>2. g[l] = y[i + l - 1]
      <4>1. \A j \in i..Len(y) : y[j] \in MarkType
        OBVIOUS
      <4>2. i \in Int /\ Len(y) \in Int /\ i <= Len(y)
        BY <1>3
      <4>3. \A j \in 1..Len(y) - i + 1 : g[j] = y[i + j - 1]
        BY ONLY <4>1, <4>2, <1>1, SubSeqProperties
      <4>4. QED
        BY <4>3, <1>5
    <3>3. i + l - 1 = l + i - 1
      OBVIOUS
    <3>4. y[l + i - 1] \in MarkType
      BY <3>1, ElementOfSeq
    <3>5. QED
      BY <3>2, <3>3, <3>4
  <2>3. QED
    BY <2>1, <2>2
<1>7. g \in Seq(MarkType)
  BY <1>3, <1>1
<1>8. DOMAIN g = 1..h /\ 1 \in 1..h /\ g[1] = y[i]
  <2>1. DOMAIN g = 1..Len(g) /\ 1 \in 1..h /\ Len(g) = h
    BY <1>6, <1>7
  <2>2. g[1] = y[1 + i - 1]
    BY <1>6, <2>1
  <2>3. 1 + i - 1 = i
    OBVIOUS
  <2>4. QED
    BY <2>1, <2>2, <2>3
<1>9. PICK u : u = [y[i] EXCEPT !.id = v]
  OBVIOUS
<1>10. u \in MarkType /\ u.end = y[i].end /\ u.seq = y[i].seq /\ u.id = v
  <2>1. PICK w \in MarkType : w = y[i]
    BY <1>3
  <2>2. u = [w EXCEPT !.id = v]
    BY <1>9, <2>1
  <2>3. u \in MarkType /\ u.end = w.end /\ u.seq = w.seq /\ u.id = v
    BY ONLY <2>2, <1>4, w \in MarkType, MarkIs
  <2>4. QED
    BY <2>1, <2>3
<1>11. z = [g EXCEPT ![1] = u]
  BY <1>1, <1>2, <1>8, <1>9
<1>12. DOMAIN z = 1..h /\ z[1] = u /\ \A l \in 1..h : l # 1 => z[l] = g[l]
  BY <1>8, <1>11
<1>13. \A l \in 1..h : z[l] \in MarkType
  BY <1>6, <1>10, <1>12
<1>14. z \in Seq(MarkType) /\ Len(z) = h
  <2>1. z = [l \in 1..h |-> z[l]]
    BY <1>8, <1>11
  <2>2. z \in [1..h -> MarkType]
    BY <2>1, <1>13
  <2>3. h \in Nat
    BY <1>6
  <2>4. z \in Seq(MarkType)
    <3>1. PICK X : X = MarkType
      OBVIOUS
    <3>2. z \in [1..h -> X]
      BY <2>2, <3>1
    <3>3. z \in Seq(X)
      BY ONLY <3>2, <2>3, SeqDef
    <3>4. QED
      BY <3>1, <3>3
  <2>5. Len(z) \in Nat /\ 1..Len(z) = 1..h
    BY <2>4, <1>12
  <2>6. Len(z) = h
    BY <2>3, <2>5
  <2>7. QED
    BY <2>4, <2>6
<1>15. \A l \in 2..h : z[l] = y[l + i - 1]
  BY <1>6, <1>12
<1>16. z # <<>>
  BY ONLY <1>6, <1>12
<1>17. QED
  BY <1>2, <1>5, <1>10, <1>12, <1>14, <1>15, <1>16 DEF Remains

LEMMA StillIs ==
    ASSUME NEW d, IsDb(d), NEW c \in CheckType
    PROVE  IsStill(StillToCheck(d, c), d, c)
<1> DEFINE behind == {i \in DOMAIN c.wm : ~IsUpToDate(d, c.wm[i])}
<1>1. c.wm \in Seq(MarkType) /\ c.for \in Endpoint /\ c.id \in Nat /\ Len(c.wm) \in Nat /\ DOMAIN c.wm = 1..Len(c.wm)
  BY DEF CheckType, Watermarks, MarkType
<1>2. StillToCheck(d, c) =
        IF behind = {} THEN [c EXCEPT !.wm = <<>>]
        ELSE LET i == CHOOSE j \in behind : \A l \in behind : j <= l
             IN  [c EXCEPT !.wm = [SubSeq(c.wm, i, Len(c.wm)) EXCEPT ![1].id = IDOf(d, c.wm[i])]]
  BY Zenon DEF StillToCheck, IsUpToDate, IDOf
<1>3. \A x \in Seq(MarkType) : /\ [c EXCEPT !.wm = x] \in CheckType /\ [c EXCEPT !.wm = x].wm = x
                               /\ [c EXCEPT !.wm = x].for = c.for /\ [c EXCEPT !.wm = x].id = c.id
  BY DEF CheckType, Watermarks, MarkType
<1>4. CASE behind = {}
  <2>1. \A l \in 1..Len(c.wm) : IsUpToDate(d, c.wm[l])
    BY <1>1, <1>4
  <2>2. StillToCheck(d, c) = [c EXCEPT !.wm = <<>>]
    BY <1>2, <1>4
  <2>3. <<>> \in Seq(MarkType)
    OBVIOUS
  <2>4. PICK c1 : c1 = [c EXCEPT !.wm = <<>>]
    OBVIOUS
  <2>5. c1 \in CheckType /\ c1.wm = <<>> /\ c1.for = c.for /\ c1.id = c.id
    BY <2>3, <2>4, <1>3
  <2>6. IsStill(c1, d, c)
    BY <2>1, <2>5 DEF IsStill
  <2>7. QED
    BY <2>2, <2>4, <2>6
<1>5. CASE behind # {}
  <2>1. behind \subseteq Nat
    BY <1>1
  <2>2. \E j \in behind : \A l \in behind : j <= l
    BY <2>1, <1>5, LeastNumber
  <2>3. PICK i : i = CHOOSE j \in behind : \A l \in behind : j <= l
    OBVIOUS
  <2>4. i \in behind /\ \A l \in behind : i <= l
    BY <2>2, <2>3
  <2>5. PICK z : z = [SubSeq(c.wm, i, Len(c.wm)) EXCEPT ![1].id = IDOf(d, c.wm[i])]
    OBVIOUS
  <2>6. StillToCheck(d, c) = [c EXCEPT !.wm = z]
    BY <1>2, <1>5, <2>3, <2>5, Zenon
  <2>7. i \in 1..Len(c.wm) /\ ~IsUpToDate(d, c.wm[i]) /\ \A l \in 1..i - 1 : IsUpToDate(d, c.wm[l])
    BY <2>4, <1>1
  <2> HIDE DEF behind
  <2>8. z \in Seq(MarkType) /\ Remains(z, d, c.wm, i) /\ z # <<>>
    BY <1>1, <2>5, <2>7, RemainsIs
  <2>9. ~(\A l \in 1..Len(c.wm) : IsUpToDate(d, c.wm[l]))
    BY <2>7
  <2>10. QED
    BY <2>6, <2>7, <2>8, <2>9, <1>3 DEF IsStill
<1>6. QED
  BY <1>4, <1>5

(* The confirmations of a step. *)
UpdatedType == [type : {"updated"}, from : Endpoint, id : Nat]
LEMMA ConfirmIs ==
    ASSUME NEW n \in Endpoint, NEW c \in CheckType, NEW m, m = Confirm(n, c)
    PROVE  m \in Message /\ m.type = "updated" /\ m.type # "update" /\ m.from = n /\ m.id = c.id
<1>1. c.id \in Nat
  BY DEF CheckType
<1>2. m.type = "updated" /\ m.from = n /\ m.id = c.id /\ m \in UpdatedType
  BY <1>1 DEF Confirm, UpdatedType
<1>3. m \in Message
  BY <1>2 DEF Message, UpdatedType
<1>4. "updated" # "update"
  OBVIOUS
<1>5. QED
  BY <1>2, <1>3, <1>4

LEMMA CheckedIs ==
    ASSUME NEW d, IsDb(d), NEW S, S \subseteq CheckType, IsFiniteSet(S)
    PROVE  /\ CheckedNow(d, S) \subseteq CheckType /\ IsFiniteSet(CheckedNow(d, S))
           /\ \A c \in S : StillToCheck(d, c) \in CheckedNow(d, S) /\ IsStill(StillToCheck(d, c), d, c)
           /\ \A c1 \in CheckedNow(d, S) : \E c \in S : IsStill(c1, d, c)
           /\ Reached(d, S) \subseteq CheckedNow(d, S) /\ IsFiniteSet(Reached(d, S))
           /\ \A c1 \in CheckedNow(d, S) : c1 \in Reached(d, S) <=> c1.wm = <<>>
<1>1. \A c \in S : IsStill(StillToCheck(d, c), d, c) /\ StillToCheck(d, c) \in CheckType
  BY StillIs DEF IsStill
<1>2. PICK g : g = [c \in S |-> StillToCheck(d, c)]
  OBVIOUS
<1>3. g \in [S -> CheckType] /\ CheckedNow(d, S) = {g[c] : c \in S}
  BY <1>1, <1>2 DEF CheckedNow
<1>4. IsFiniteSet(CheckedNow(d, S))
  BY <1>3, FiniteImage
<1>5. CheckedNow(d, S) \subseteq CheckType
  BY <1>3
<1>6. \A c \in S : StillToCheck(d, c) \in CheckedNow(d, S)
  BY DEF CheckedNow
<1>7. ASSUME NEW c1 \in CheckedNow(d, S) PROVE \E c \in S : IsStill(c1, d, c)
  BY <1>1 DEF CheckedNow
<1>8. Reached(d, S) \subseteq CheckedNow(d, S) /\ \A c1 \in CheckedNow(d, S) : c1 \in Reached(d, S) <=> c1.wm = <<>>
  BY DEF Reached
<1>9. IsFiniteSet(Reached(d, S))
  BY <1>4, <1>8, FS_Subset
<1>10. QED
  BY <1>1, <1>4, <1>5, <1>6, <1>7, <1>8, <1>9

LEMMA ConfirmationsAre ==
    ASSUME NEW n \in Endpoint, NEW d, IsDb(d), NEW S, S \subseteq CheckType, IsFiniteSet(S),
           NEW e \in Endpoint, NEW z, z = Confirmations(n, d, S)[e]
    PROVE  /\ z \in Seq(Message) /\ \A j \in 1..Len(z) : z[j].type # "update"
           /\ \A j \in 1..Len(z) : z[j].type = "updated" /\ z[j].from = n
                 /\ \E c \in Reached(d, S) : c.for = e /\ c.id = z[j].id
           /\ \A c \in Reached(d, S) : c.for = e =>
                 \E j \in 1..Len(z) : z[j].type = "updated" /\ z[j].from = n /\ z[j].id = c.id
<1> DEFINE R == {x \in Reached(d, S) : x.for = e}
           g == [c \in R |-> Confirm(n, c)]
           T == {g[c] : c \in R}
<1>1. IsFiniteSet(R) /\ R \subseteq CheckType /\ R \subseteq Reached(d, S)
  BY CheckedIs, FS_Subset
<1>2. \A c \in R : /\ g[c] \in Message /\ g[c].type = "updated" /\ g[c].type # "update" /\ g[c].from = n /\ g[c].id = c.id
                   /\ c.for = e
  BY <1>1, ConfirmIs
<1>3. z = SetToSeq(T)
  BY DEF Confirmations
<1>4. g \in [R -> Message]
  BY <1>2
<1> HIDE DEF g, R
<1>5. IsFiniteSet(T) /\ T \subseteq Message
  BY <1>1, <1>4, FiniteImage
<1>6. z \in Seq(T) /\ \A x \in T : \E j \in 1..Len(z) : z[j] = x
  <2> HIDE DEF T
  <2>1. PICK X : X = T
    OBVIOUS
  <2>2. z = SetToSeq(X) /\ IsFiniteSet(X)
    BY <2>1, <1>3, <1>5
  <2>3. PICK x : x = SetToSeq(X)
    OBVIOUS
  <2>4. x \in Seq(X) /\ \A y \in X : \E j \in 1..Len(x) : x[j] = y
    BY <2>2, <2>3, SetToSeqIs
  <2>5. QED
    BY <2>1, <2>2, <2>3, <2>4
<1>7. \A j \in 1..Len(z) : \E c \in R : z[j] = g[c]
  BY <1>6
<1>8. \A c \in R : \E j \in 1..Len(z) : z[j] = g[c]
  BY <1>6
<1>9. z \in Seq(Message)
  BY <1>5, <1>6
<1>10. \A j \in 1..Len(z) : z[j].type # "update" /\ z[j].type = "updated" /\ z[j].from = n
  BY <1>2, <1>7
<1>11. \A j \in 1..Len(z) : \E c \in Reached(d, S) : c.for = e /\ c.id = z[j].id
  BY <1>1, <1>2, <1>7
<1>12. ASSUME NEW c \in Reached(d, S), c.for = e
       PROVE  \E j \in 1..Len(z) : z[j].type = "updated" /\ z[j].from = n /\ z[j].id = c.id
  BY <1>12, <1>2, <1>8 DEF R
<1>13. QED
  BY <1>9, <1>10, <1>11, <1>12

-----------------------------------------------------------------------------
(* The operations of the actions, one at a time. *)

(* D1 and W1 are D and W once c has written v at k. *)
Writes(D, P, W, c, k, v, D1, W1) ==
    /\ c \in Endpoint /\ P[c] # 0 /\ k \in Key /\ v \in Val /\ KeyFrom(c, k, v)
    /\ \A m \in Modules : (k = PortsOf[m] /\ c # m) => P[m] = 0
    /\ Total(D1) /\ IsWritten(D1[c], c, D[c], k, v) /\ \A n \in Endpoint : n # c => D1[n] = D[n]
    /\ Total(W1) /\ W1[c] = Append(W[c], [key |-> k, val |-> v]) /\ \A e \in Endpoint : e # c => W1[e] = W[e]

LEMMA WriteStep ==
    ASSUME NEW D, NEW I, NEW P, NEW W, NEW s, NEW at, NEW mk, Good(D, I, P, W, s, at, mk),
           NEW c, NEW k, NEW v, NEW D1, NEW W1, Writes(D, P, W, c, k, v, D1, W1)
    PROVE  \E at1 : Good(D1, I, P, W1, s, at1, mk)
<1> PICK x : x = [key |-> k, val |-> v]
  OBVIOUS
<1>0. /\ c \in Endpoint /\ P[c] # 0 /\ k \in Key /\ v \in Val /\ KeyFrom(c, k, v)
      /\ \A m \in Modules : (k = PortsOf[m] /\ c # m) => P[m] = 0
      /\ Total(D1) /\ IsWritten(D1[c], c, D[c], k, v) /\ \A n \in Endpoint : n # c => D1[n] = D[n]
      /\ Total(W1) /\ W1[c] = Append(W[c], x) /\ \A e \in Endpoint : e # c => W1[e] = W[e]
  BY Zenon DEF Writes
<1>3. \A n, e \in Endpoint : at[n][e] \in Nat
  BY PairFacts
<1>4. PICK f : f = [n \in Endpoint |-> [e \in Endpoint |-> IF n = c /\ e = c THEN at[n][e] + 1 ELSE at[n][e]]]
  OBVIOUS
<1>5. \A n, e \in Endpoint : f[n][e] = IF n = c /\ e = c THEN at[n][e] + 1 ELSE at[n][e]
  BY <1>4
<1>6. f \in [Endpoint -> [Endpoint -> Nat]]
  BY <1>3, <1>4
<1>7. f[c][c] = at[c][c] + 1 /\ \A n, e \in Endpoint : (n # c \/ e # c) => f[n][e] = at[n][e]
  BY <1>0, <1>5
<1>8. x \in WriteType /\ x.key = k /\ x.val = v
  BY <1>0 DEF WriteType
<1>9. Writing(D, I, P, W, s, at, mk, c, k, v, x, D1, W1, f)
  BY <1>0, <1>6, <1>7, <1>8, Zenon DEF Writing
<1>10. Good(D1, I, P, W1, s, f, mk)
  BY <1>9, WriteKeeps
<1>11. QED
  BY <1>10

(* d1 is d with m taken; the event of a central module has to be TRUE. *)
Incorporates(d1, n, d, m) ==
    \E d0 : /\ d0 = IncorporateDelta(n, d, m)
            /\ IsDb(d1) /\ d1.ep = d0.ep /\ d1.entry = d0.entry /\ d1.nextID = d0.nextID
            /\ IF IsCentral(n) THEN d1.event = TRUE ELSE d1.event = d0.event

LEMMA TakenIs ==
    ASSUME NEW D, NEW I, NEW P, NEW W, NEW s, NEW at, NEW mk, Good(D, I, P, W, s, at, mk),
           NEW n \in Endpoint, NEW m, m = I[n][1], 1 <= Len(I[n]), m.type = "update",
           NEW d1, Incorporates(d1, n, D[n], m)
    PROVE  m.from \in Endpoint /\ \E old : IsTaken(d1, n, D[n], m, m.from, old)
<1> PICK d : d = D[n]
  OBVIOUS
<1>40. PICK d0 :
            /\ d0 = IncorporateDelta(n, d, m)
            /\ IsDb(d1) /\ d1.ep = d0.ep /\ d1.entry = d0.entry /\ d1.nextID = d0.nextID
            /\ IF IsCentral(n) THEN d1.event = TRUE ELSE d1.event = d0.event
  BY DEF Incorporates
<1>1. IsDb(d) /\ 1 \in 1..Len(I[n]) /\ m \in Message
  BY ModuleFacts
<1>2. Proper(D, n, m)
  BY <1>1 DEF Good, Base
<1>3. PICK b \in Nat : \A x \in m.entries : x.seq <= b
  BY <1>2 DEF Proper
<1>4. \A x, y \in m.entries : x.key = y.key => x = y
  BY <1>2 DEF Proper
<1>5. /\ m.from \in Endpoint /\ m.pid \in Nat
      /\ \A x \in m.entries : x.key \in Key /\ x.seq \in Nat
  BY <1>1, UpdateIs
<1>6. PICK f, p : f = m.from /\ p = m.pid
  OBVIOUS
<1>7. PICK known : known = GetOrAddEndpoint(n, d, f, p)
  OBVIOUS
<1>8. PICK old : old = known.ep[f].recv
  OBVIOUS
<1>9. IsIncorporated(d0, n, d, m, known, old)
  BY <1>1, <1>3, <1>4, <1>6, <1>7, <1>8, <1>40, IncorporateIs
<1>10. IsKnown(known, n, d, f, p)
  BY <1>1, <1>5, <1>6, <1>7, GetOrAddIs
<1>30. /\ IsDb(d0) /\ DOMAIN d0.ep = DOMAIN d.ep \cup {m.from}
       /\ d0.event = d.event /\ d0.nextID = known.nextID /\ old \in Nat
       /\ \A e \in DOMAIN d.ep : e # m.from => d0.ep[e] = d.ep[e]
       /\ d0.ep[m.from].id = known.ep[m.from].id /\ d0.ep[m.from].sent = known.ep[m.from].sent
       /\ d0.ep[m.from].full = known.ep[m.from].full /\ d0.ep[m.from].pid = known.ep[m.from].pid
       /\ old <= d0.ep[m.from].recv
       /\ d0.ep[m.from].recv = old \/ \E x \in m.entries : d0.ep[m.from].recv = x.seq
  BY ONLY <1>9 DEF IsIncorporated
<1>31. /\ \A x \in m.entries : x.seq <= d0.ep[m.from].recv
       /\ \A x \in m.entries : x.seq > old => d0.entry[x.key] = Entered(n, d0.ep[m.from].id, x)
       /\ \A k \in Key : (\A x \in m.entries : x.key = k => x.seq <= old) => d0.entry[k] = d.entry[k]
  BY ONLY <1>9 DEF IsIncorporated
<1>11. /\ IsDb(d0) /\ DOMAIN d1.ep = DOMAIN d.ep \cup {f} /\ f \in DOMAIN d1.ep
       /\ d0.event = d.event /\ d1.nextID = known.nextID /\ old \in Nat
       /\ \A e \in DOMAIN d.ep : e # f => d1.ep[e] = d.ep[e]
       /\ d1.ep[f].id = known.ep[f].id /\ d1.ep[f].sent = known.ep[f].sent
       /\ d1.ep[f].full = known.ep[f].full /\ d1.ep[f].pid = known.ep[f].pid
       /\ old <= d1.ep[f].recv
       /\ d1.ep[f].recv = old \/ \E x \in m.entries : d1.ep[f].recv = x.seq
  BY ONLY <1>6, <1>30, <1>40
<1>12. /\ \A x \in m.entries : x.seq <= d1.ep[f].recv
       /\ \A x \in m.entries : x.seq > old => d1.entry[x.key] = Entered(n, d1.ep[f].id, x)
       /\ \A k \in Key : (\A x \in m.entries : x.key = k => x.seq <= old) => d1.entry[k] = d.entry[k]
  BY ONLY <1>6, <1>31, <1>40
<1>13. (d.event => d1.event) /\ (IsCentral(n) => d1.event)
  BY <1>11, <1>40
<1>14. f \notin DOMAIN d.ep => known.ep[f] = AddedAs(n, f, p, d.nextID) /\ known.nextID = d.nextID + 1
  BY <1>10 DEF IsKnown
<1>15. /\ AddedAs(n, f, p, d.nextID).id = d.nextID /\ AddedAs(n, f, p, d.nextID).full = TRUE
       /\ AddedAs(n, f, p, d.nextID).sent = 0 /\ AddedAs(n, f, p, d.nextID).recv = 0
       /\ AddedAs(n, f, p, d.nextID).pid = IF Local(n, f) THEN p ELSE 0
  BY DEF AddedAs
<1>16. f \notin DOMAIN d.ep =>
          /\ d1.nextID = d.nextID + 1 /\ d1.ep[f].id = d.nextID /\ d1.ep[f].full /\ d1.ep[f].sent = 0 /\ old = 0
          /\ d1.ep[f].pid = IF Local(n, f) THEN p ELSE 0
  BY <1>8, <1>11, <1>14, <1>15
<1>17. (f \in DOMAIN d.ep /\ p # 0 /\ p # d.ep[f].pid) =>
          /\ d1.nextID = d.nextID /\ d1.ep[f].id = d.ep[f].id /\ d1.ep[f].full = d.ep[f].full
          /\ p # 0 /\ d1.ep[f].pid = p /\ d1.ep[f].sent = 0 /\ old = 0
  BY <1>8, <1>10, <1>11 DEF IsKnown
<1>18. (f \in DOMAIN d.ep /\ (p = 0 \/ p = d.ep[f].pid)) =>
          /\ d1.nextID = d.nextID /\ d1.ep[f].id = d.ep[f].id /\ d1.ep[f].full = d.ep[f].full
          /\ d1.ep[f].pid = d.ep[f].pid /\ d1.ep[f].sent = d.ep[f].sent /\ old = d.ep[f].recv
  BY <1>8, <1>10, <1>11 DEF IsKnown
<1>19. f \in DOMAIN d.ep =>
          /\ d1.nextID = d.nextID /\ d1.ep[f].id = d.ep[f].id /\ d1.ep[f].full = d.ep[f].full
          /\ \/ p # 0 /\ d1.ep[f].pid = p /\ d1.ep[f].sent = 0 /\ old = 0
             \/ /\ p = 0 \/ p = d.ep[f].pid
                /\ d1.ep[f].pid = d.ep[f].pid /\ d1.ep[f].sent = d.ep[f].sent /\ old = d.ep[f].recv
  BY <1>17, <1>18
<1>20. Took(n, m, f, d, d1, old)
  <2>1. f \in DOMAIN d.ep => d1.ep[f].id = d.ep[f].id
    BY <1>19
  <2>2. QED
    BY ONLY <2>1, <1>4, <1>5, <1>6, <1>11, <1>12 DEF Took
<1>21. IsTaken(d1, n, d, m, f, old)
  BY ONLY <1>6, <1>11, <1>13, <1>16, <1>19, <1>20, <1>40 DEF IsTaken
<1>22. QED
  <2>1. IsTaken(d1, n, d, m, m.from, old)
    BY ONLY <1>6, <1>21
  <2>2. QED
    BY <2>1, <1>5

Takes(D, I, P, n, m, D1, I1) ==
    /\ n \in Endpoint /\ P[n] # 0 /\ I[n] # <<>> /\ m = Head(I[n]) /\ m.type = "update"
    /\ Total(D1) /\ Incorporates(D1[n], n, D[n], m) /\ \A x \in Endpoint : x # n => D1[x] = D[x]
    /\ Total(I1) /\ I1[n] = Tail(I[n]) /\ \A x \in Endpoint : x # n => I1[x] = I[x]

LEMMA TakeStep ==
    ASSUME NEW D, NEW I, NEW P, NEW W, NEW s, NEW at, NEW mk, Good(D, I, P, W, s, at, mk),
           NEW n, NEW m, NEW D1, NEW I1, Takes(D, I, P, n, m, D1, I1)
    PROVE  \E at1, mk1 : Good(D1, I1, P, W, s, at1, mk1)
<1> PICK d1 : d1 = D1[n]
  OBVIOUS
<1> SUFFICES
      ASSUME n \in Endpoint, P[n] # 0, I[n] # <<>>, m = Head(I[n]), m.type = "update",
             Incorporates(d1, n, D[n], m),
             Total(D1), D1[n] = d1, \A x \in Endpoint : x # n => D1[x] = D[x],
             Total(I1), I1[n] = Tail(I[n]), \A x \in Endpoint : x # n => I1[x] = I[x]
      PROVE  \E at1, mk1 : Good(D1, I1, P, W, s, at1, mk1)
  BY Zenon DEF Takes
<1>1. I[n] \in Seq(Message) /\ mk[n] \in Seq(Nat) /\ Len(mk[n]) = Len(I[n]) /\ Len(I[n]) \in Nat
  BY ModuleFacts
<1>2. Len(I[n]) # 0 /\ 1 <= Len(I[n]) /\ 1 \in 1..Len(I[n])
  BY <1>1
<1>3. Tail(I[n]) \in Seq(Message) /\ Without(Tail(I[n]), I[n], 1) /\ Head(I[n]) = I[n][1]
  BY <1>1, TailIs
<1>4. m = I[n][1]
  BY <1>3
<1>5. PICK d : d = D[n]
  OBVIOUS
<1>6. m.from \in Endpoint /\ \E old : IsTaken(d1, n, d, m, m.from, old)
  BY <1>2, <1>4, <1>5, TakenIs
<1>7. PICK old : IsTaken(d1, n, d, m, m.from, old)
  BY <1>6
<1>8. PICK f : f = m.from
  OBVIOUS
<1>9. Taking(D, I, P, W, s, at, mk, n, m, f, old, D1[n])
  BY <1>2, <1>4, <1>5, <1>6, <1>7, <1>8 DEF Taking
<1>10. PICK mk1 : mk1 = [x \in Endpoint |-> IF x = n THEN Tail(mk[n]) ELSE mk[x]]
  OBVIOUS
<1>11. mk1[n] = Tail(mk[n]) /\ \A x \in Endpoint : x # n => mk1[x] = mk[x]
  BY <1>10
<1>12. Tail(mk[n]) \in Seq(Nat) /\ Without(Tail(mk[n]), mk[n], 1)
  BY <1>1, <1>2, TailIs
<1>13. mk1 \in [Endpoint -> Seq(Nat)]
  BY ModuleFacts, <1>10, <1>12
<1>14. I1 \in [Endpoint -> Seq(Message)]
  <2>1. \A x \in Endpoint : I[x] \in Seq(Message)
    BY ModuleFacts
  <2>2. \A x \in Endpoint : I1[x] \in Seq(Message)
    BY <2>1, <1>3
  <2>3. QED
    BY <2>2 DEF Total
<1>15. /\ Without(I1[n], I[n], 1) /\ Len(mk1[n]) = Len(I1[n])
       /\ \A j \in 1..Len(I1[n]) : mk1[n][j] = mk[n][Skip(1, j)]
  BY <1>1, <1>3, <1>11, <1>12 DEF Without
<1>16. PICK v : v = Reaching(at, mk, n, m, f, Proc(D, f))
  OBVIOUS
<1>17. PICK at1 : at1 = [x \in Endpoint |-> [e \in Endpoint |-> IF x = n /\ e = f THEN v ELSE at[x][e]]]
  OBVIOUS
<1>18. \A x, e \in Endpoint : at1[x][e] = IF x = n /\ e = f THEN v ELSE at[x][e]
  BY <1>17
<1>19. v \in Nat
  BY <1>6, <1>8, <1>2, ModuleFacts, PairFacts, <1>16 DEF Reaching
<1>20. at1 \in [Endpoint -> [Endpoint -> Nat]]
  BY PairFacts, <1>19, <1>17
<1>21. at1[n][f] = v /\ \A x, e \in Endpoint : (x # n \/ e # f) => at1[x][e] = at[x][e]
  BY <1>6, <1>8, <1>18
<1>22. Taken1(D, I, P, W, s, at, mk, n, m, f, old, D1, I1, at1, mk1)
  BY <1>9, <1>11, <1>13, <1>14, <1>15, <1>16, <1>20, <1>21 DEF Taken1
<1>23. Good(D1, I1, P, W, s, at1, mk1)
  BY <1>22, TakeKeeps
<1>24. QED
  BY <1>23

(* Messages that are not updates are added; one that is not is taken.      *)
Appends(I, out, I1) ==
    /\ \A n \in Endpoint : out[n] \in Seq(Message) /\ \A j \in 1..Len(out[n]) : out[n][j].type # "update"
    /\ Total(I1) /\ \A n \in Endpoint : I1[n] = I[n] \o out[n]

LEMMA AddsStep ==
    ASSUME NEW D, NEW I, NEW P, NEW W, NEW s, NEW at, NEW mk, Good(D, I, P, W, s, at, mk),
           NEW out, NEW I1, Appends(I, out, I1)
    PROVE  \E mk1 : Good(D, I1, P, W, s, at, mk1)
BY AddsKeeps DEF Appends

-----------------------------------------------------------------------------
(* The invariant.  There are marks with which everything above holds.      *)

Kept == \E at, mk : Good(db, inbox, pid, written, stops, at, mk)

LEMMA StartGood ==
    ASSUME NEW D, Total(D), \A n \in Endpoint : D[n] = EmptyDb(n, 1),
           NEW I, Total(I), \A n \in Endpoint : I[n] = <<>>,
           NEW P, Total(P), \A n \in Endpoint : P[n] = 1,
           NEW W, Total(W), \A n \in Endpoint : W[n] = <<>>
    PROVE  \E at, mk : Good(D, I, P, W, 0, at, mk)
<1>1. PICK at : at = [n \in Endpoint |-> [e \in Endpoint |-> 0]]
  OBVIOUS
<1>2. PICK mk : mk = [n \in Endpoint |-> <<>>]
  OBVIOUS
<1>3. \A n, e \in Endpoint : at[n][e] = 0
  BY <1>1
<1>4. at \in [Endpoint -> [Endpoint -> Nat]]
  BY <1>1
<1>5. \A n \in Endpoint : mk[n] = <<>>
  BY <1>2
<1>6. mk \in [Endpoint -> Seq(Nat)]
  BY <1>2
<1>7. Len(<<>>) = 0 /\ 1..0 = {} /\ 0 \in Nat /\ 1 \in Nat
  OBVIOUS
<1>30. ASSUME NEW n \in Endpoint
      PROVE  /\ IsDb(D[n]) /\ DOMAIN D[n].ep = {n} /\ D[n].nextID = 1 /\ D[n].event = FALSE
             /\ D[n].ep[n].id = 0 /\ D[n].ep[n].recv = 0 /\ D[n].ep[n].sent = 0 /\ D[n].ep[n].pid = 1
             /\ \A k \in Key : /\ D[n].entry[k].val = Nil /\ ~D[n].entry[k].has /\ D[n].entry[k].seq = 0
             /\ \A e : OwnedBy(D[n], e) = {}
  <2>1. PICK d : d = EmptyDb(n, 1)
    OBVIOUS
  <2>2. /\ IsDb(d) /\ DOMAIN d.ep = {n} /\ d.nextID = 1 /\ d.event = FALSE
        /\ \A k \in Key : d.entry[k] = NoEntry
        /\ d.ep[n] = [id |-> 0, recv |-> 0, sent |-> 0, full |-> TRUE, pid |-> 1]
    <3>1. PICK p \in Nat : p = 1
      OBVIOUS
    <3>2. QED
      BY <3>1, <2>1, EmptyDbIs
  <2>3. \A k \in Key : d.entry[k].val = Nil /\ ~d.entry[k].has /\ d.entry[k].seq = 0
    BY <2>2, NoEntryIs DEF NoEntry
  <2>4. \A e : OwnedBy(d, e) = {}
    BY <2>3 DEF OwnedBy
  <2>5. d.ep[n].id = 0 /\ d.ep[n].recv = 0 /\ d.ep[n].sent = 0 /\ d.ep[n].pid = 1
    BY <2>2
  <2>6. QED
    BY <2>1, <2>2, <2>3, <2>4, <2>5
<1>31. \A n \in Endpoint :
             /\ IsDb(D[n]) /\ DOMAIN D[n].ep = {n} /\ D[n].nextID = 1 /\ D[n].event = FALSE
             /\ D[n].ep[n].id = 0 /\ D[n].ep[n].recv = 0 /\ D[n].ep[n].sent = 0 /\ D[n].ep[n].pid = 1
  BY <1>30
<1>32. \A n \in Endpoint :
             /\ \A k \in Key : /\ D[n].entry[k].val = Nil /\ ~D[n].entry[k].has /\ D[n].entry[k].seq = 0
             /\ \A e : OwnedBy(D[n], e) = {}
  BY <1>30
<1>9. \A n \in Endpoint : Proc(D, n) = 1
  BY <1>31 DEF Proc
<1>10. Base(D, I, P, W, 0)
  <2>1. \A n \in Endpoint : Numbered(D[n], n, W[n])
    <3>1. SUFFICES ASSUME NEW n \in Endpoint PROVE Numbered(D[n], n, W[n])
      OBVIOUS
    <3>2. \E b \in Nat : \A k \in Key : D[n].entry[k].seq <= b
      BY <1>7, <1>32
    <3>4. \A k \in Key : ~D[n].entry[k].has
      BY <1>32
    <3>5. /\ DOMAIN D[n].ep = {n} /\ D[n].nextID = 1 /\ W[n] = <<>>
          /\ D[n].ep[n].id = 0 /\ D[n].ep[n].recv = 0 /\ D[n].ep[n].sent = 0
      BY <1>31
    <3>3. QED
      BY ONLY <3>2, <3>4, <3>5, <1>7 DEF Numbered
  <2>2. I \in [Endpoint -> Seq(Message)] /\ W \in [Endpoint -> Seq(WriteType)]
    <3>3. \A X : <<>> \in Seq(X)
      OBVIOUS
    <3>1. \A n \in Endpoint : I[n] \in Seq(Message) /\ W[n] \in Seq(WriteType)
      BY ONLY <3>3, \A n \in Endpoint : I[n] = <<>>, \A n \in Endpoint : W[n] = <<>>
    <3>2. QED
      BY <3>1 DEF Total
  <2>3. P \in [Endpoint -> Nat]
    BY DEF Total
  <2>4. Processes(D)
    BY <1>31, <1>9 DEF Processes, PidFits
  <2>5. \A n \in Endpoint : \A j \in 1..Len(I[n]) : Proper(D, n, I[n][j])
    BY <1>7
  <2>6. \A e \in Endpoint : P[e] = Proc(D, e) /\ 1 <= Proc(D, e) /\ Proc(D, e) <= 0 + 1 /\ P[e] # 0 /\ P[e] = 1
    BY <1>9
  <2>7. QED
    BY <2>1, <2>2, <2>3, <2>4, <2>5, <2>6, <1>7, <1>31 DEF Base
<1>11. Marked(I, W, at, mk)
  BY <1>3, <1>4, <1>5, <1>6, <1>7 DEF Marked
<1>12. Keys(D, I, W)
  BY <1>7, <1>32 DEF Keys
<1>13. Copying(D, P, W, at)
  BY <1>32, <1>31, <1>3, <1>7 DEF Copying, KeysOf, Copy
<1>14. Owning(D, P, W, at)
  BY <1>32 DEF Owning, Owned
<1>15. Flowing(D, I, P, W, at, mk)
  BY <1>3, Places, <1>7 DEF Flowing, Flow, Whole, InOrder
<1>16. Sending(D, I, P, W, at, mk)
  BY <1>3, Places, <1>7 DEF Sending, Sent
<1>17. Starting(D, I, P, at)
  BY <1>3, <1>7, <1>32 DEF Starting, Nothing, KeysOf
<1>18. Clearing(D, I, P, W, at)
  <2>1. SUFFICES ASSUME NEW m \in Modules
                 PROVE  /\ Uncleared(D, at, W, m)
                        /\ \A n \in Endpoint : ClearedFirst(n, m, I[n], at[n][m], W[m], Proc(D, m))
                        /\ NeverCleared(D, I, m)
    BY Zenon DEF Clearing
  <2>2. CentralOf(m) \in Endpoint /\ m \in Endpoint
    BY MnemosynthAssumption DEF Modules
  <2>3. Uncleared(D, at, W, m)
    BY <2>2, <1>32 DEF Uncleared
  <2>4. ASSUME NEW n \in Endpoint PROVE ClearedFirst(n, m, I[n], at[n][m], W[m], Proc(D, m))
    BY <1>7 DEF ClearedFirst
  <2>5. NeverCleared(D, I, m)
    BY <1>7, <1>32 DEF NeverCleared
  <2>6. QED
    BY <2>3, <2>4, <2>5
<1>19. Notified(D)
  BY <1>31 DEF Notified
<1>20. Good(D, I, P, W, 0, at, mk)
  BY <1>10, <1>11, <1>12, <1>13, <1>14, <1>15, <1>16, <1>17, <1>18, <1>19 DEF Good
<1>21. QED
  BY <1>20

LEMMA InitKept == Init => Kept
<1>1. SUFFICES ASSUME Init PROVE Kept
  OBVIOUS
<1>2. /\ Total(db) /\ \A n \in Endpoint : db[n] = EmptyDb(n, 1)
      /\ Total(inbox) /\ \A n \in Endpoint : inbox[n] = <<>>
      /\ Total(pid) /\ \A n \in Endpoint : pid[n] = 1
      /\ Total(written) /\ \A n \in Endpoint : written[n] = <<>>
      /\ stops = 0
  BY <1>1 DEF Init, Total
<1>3. \E at, mk : Good(db, inbox, pid, written, 0, at, mk)
  BY <1>2, StartGood
<1>4. QED
  BY <1>2, <1>3 DEF Kept

LEMMA WriteKept ==
    ASSUME Kept, NEW n \in Endpoint, NEW k \in Key, NEW delete \in BOOLEAN, Write(n, k, delete)
    PROVE  Kept'
<1>1. PICK at, mk : Good(db, inbox, pid, written, stops, at, mk)
  BY DEF Kept
<1>2. PICK v : v = IF delete THEN Nil ELSE <<stops, db[n].ep[n].recv + 1>>
  OBVIOUS
<1>3. PICK x : x = [key |-> k, val |-> v]
  OBVIOUS
<1>4. /\ pid[n] # 0 /\ WriterOf[k] = n
      /\ db' = [db EXCEPT ![n] = WriteEntry(n, @, k, v)]
      /\ written' = [written EXCEPT ![n] = Append(@, x)]
      /\ inbox' = inbox /\ pid' = pid /\ stops' = stops
  BY <1>2, <1>3, Zenon DEF Write
<1>5. v \in Val
  <2>1. stops \in Nat
    BY <1>1 DEF Good, Base
  <2>2. IsDb(db[n]) /\ n \in DOMAIN db[n].ep
    BY <1>1, ModuleFacts DEF Numbered
  <2>3. db[n].ep[n].recv + 1 \in Nat
    BY <2>2, RecordIs
  <2>4. QED
    BY <2>1, <2>3, <1>2 DEF Val
<1>6. Total(db) /\ Total(written)
  BY <1>1 DEF Good, Base, Total
<1>7. /\ Total(db') /\ db'[n] = WriteEntry(n, db[n], k, v) /\ \A e \in Endpoint : e # n => db'[e] = db[e]
      /\ Total(written') /\ written'[n] = Append(written[n], x)
      /\ \A e \in Endpoint : e # n => written'[e] = written[e]
  BY <1>4, <1>6 DEF Total
<1>8. KeyFrom(n, k, v) /\ \A m \in Modules : (k = PortsOf[m] /\ n # m) => pid[m] = 0
  BY <1>4, MnemosynthAssumption DEF KeyFrom
<1>12. IsWritten(db'[n], n, db[n], k, v)
  BY <1>1, ModuleFacts, <1>5, WriteIs, <1>7 DEF Numbered
<1>9. Writes(db, pid, written, n, k, v, db', written')
  BY <1>3, <1>4, <1>5, <1>7, <1>8, <1>12, Zenon DEF Writes
<1>11. \E at1 : Good(db', inbox, pid, written', stops, at1, mk)
  BY <1>1, <1>9, WriteStep
<1>10. QED
  BY <1>4, <1>11 DEF Kept

LEMMA OnDbModifiedKept ==
    ASSUME Windows = {}, Kept, NEW n \in Endpoint, OnDbModified(n)
    PROVE  Kept'
<1>1. PICK at, mk : Good(db, inbox, pid, written, stops, at, mk)
  BY DEF Kept
<1>2. /\ pid[n] # 0 /\ db' = [db EXCEPT ![n] = AfterDelta(n, @)]
      /\ inbox' = Deliver(n, FALSE, Deltas(n, db[n]))
      /\ pid' = pid /\ stops' = stops /\ written' = written
  BY DEF OnDbModified
<1>3. Total(db') /\ db'[n] = AfterDelta(n, db[n]) /\ \A e \in Endpoint : e # n => db'[e] = db[e]
  BY <1>1, <1>2 DEF Good, Base, Total
<1>4. IsDb(db[n])
  BY <1>1, ModuleFacts
<1>5. Total(inbox') /\ \A e \in Endpoint : inbox'[e] = inbox[e] \o (IF pid[e] # 0 THEN DeltaFor(n, db[n], e) ELSE <<>>)
  BY <1>2 DEF Deliver, Deltas, Reaches, Total
<1>8. Spreads(db, inbox, pid, n, db[n], db', inbox')
  BY <1>2, <1>3, <1>4, <1>5, Zenon DEF Spreads
<1>6. \E mk1 : Good(db', inbox', pid, written, stops, at, mk1)
  BY <1>1, <1>8, SpreadStep
<1>7. QED
  BY <1>2, <1>6 DEF Kept

(* What the local checkpoints are. *)
Waits ==
    /\ waiting = [n \in Endpoint |-> waiting[n]]
    /\ \A n \in Endpoint : /\ waiting[n] \subseteq CheckType /\ IsFiniteSet(waiting[n])
                           /\ \A c \in waiting[n] : c.wm # <<>>

LEMMA IncorporateDb ==
    ASSUME NEW D, NEW I, NEW P, NEW W, NEW s, NEW at, NEW mk, Good(D, I, P, W, s, at, mk),
           NEW n \in Endpoint, NEW m, m = I[n][1], 1 <= Len(I[n]), m.type = "update",
           NEW d0, d0 = IncorporateDelta(n, D[n], m)
    PROVE  IsDb(d0)
<1>1. PICK d : d = D[n]
  OBVIOUS
<1>2. IsDb(d) /\ 1 \in 1..Len(I[n]) /\ m \in Message
  BY <1>1, ModuleFacts
<1>3. Proper(D, n, m)
  BY <1>2 DEF Good, Base
<1>4. PICK b \in Nat : \A x \in m.entries : x.seq <= b
  BY <1>3 DEF Proper
<1>5. \A x, y \in m.entries : x.key = y.key => x = y
  BY <1>3 DEF Proper
<1>6. PICK f : f = m.from
  OBVIOUS
<1>7. PICK known : known = GetOrAddEndpoint(n, d, f, m.pid)
  OBVIOUS
<1>8. PICK old : old = known.ep[f].recv
  OBVIOUS
<1>9. IsIncorporated(d0, n, d, m, known, old)
  BY <1>1, <1>2, <1>4, <1>5, <1>6, <1>7, <1>8, IncorporateIs
<1>10. QED
  BY ONLY <1>9 DEF IsIncorporated

LEMMA EventIs ==
    ASSUME NEW d, IsDb(d), NEW d1, d1 = [d EXCEPT !.event = TRUE]
    PROVE  IsDb(d1) /\ d1.ep = d.ep /\ d1.entry = d.entry /\ d1.nextID = d.nextID /\ d1.event = TRUE
<1>1. DOMAIN d = {"entry", "ep", "nextID", "event"}
  BY RecordIs
<1>2. d1.ep = d.ep /\ d1.entry = d.entry /\ d1.nextID = d.nextID /\ d1.event = TRUE
  BY <1>1
<1>3. d1 = [entry |-> d1.entry, ep |-> d1.ep, nextID |-> d1.nextID, event |-> d1.event]
  <2>1. d = [entry |-> d.entry, ep |-> d.ep, nextID |-> d.nextID, event |-> d.event]
    BY DEF IsDb
  <2>2. PICK a, b, c, g : a = d.entry /\ b = d.ep /\ c = d.nextID /\ g = d.event
    OBVIOUS
  <2>3. d = [entry |-> a, ep |-> b, nextID |-> c, event |-> g]
    BY <2>1, <2>2
  <2>4. d1 = [entry |-> a, ep |-> b, nextID |-> c, event |-> TRUE]
    BY ONLY <2>3, d1 = [d EXCEPT !.event = TRUE]
  <2>5. QED
    BY <2>2, <2>4, <1>2
<1>4. IsDb(d1)
  BY <1>2, <1>3 DEF IsDb
<1>5. QED
  BY <1>2, <1>4

(* n takes an update, and a central module sends at once what is new.      *)
TakesUpdate(D, I, P, n, D1, I1) ==
    /\ n \in Endpoint /\ P[n] # 0 /\ I[n] # <<>> /\ Head(I[n]).type = "update"
    /\ Total(D1) /\ \A x \in Endpoint : x # n => D1[x] = D[x]
    /\ LET d == IncorporateDelta(n, D[n], Head(I[n]))
       IN  /\ D1[n] = IF IsCentral(n) THEN AfterDelta(n, d) ELSE d
           /\ Total(I1) /\ \A x \in Endpoint :
                 I1[x] = (IF x = n THEN Tail(I[x]) ELSE I[x])
                            \o (IF IsCentral(n) /\ P[x] # 0 THEN DeltaFor(n, d, x) ELSE <<>>)

LEMMA TakesUpdateStep ==
    ASSUME NEW D, NEW I, NEW P, NEW W, NEW s, NEW at, NEW mk, Good(D, I, P, W, s, at, mk),
           NEW n, NEW D1, NEW I1, TakesUpdate(D, I, P, n, D1, I1)
    PROVE  /\ \E at1, mk1 : Good(D1, I1, P, W, s, at1, mk1)
           /\ IsCentral(n) => \A x \in Endpoint : DeltaFor(n, IncorporateDelta(n, D[n], Head(I[n])), x) \in Seq(Message)
<1>1. PICK m, d0 : m = Head(I[n]) /\ d0 = IncorporateDelta(n, D[n], m)
  OBVIOUS
<1>2. /\ n \in Endpoint /\ P[n] # 0 /\ I[n] # <<>> /\ m.type = "update"
      /\ Total(D1) /\ \A x \in Endpoint : x # n => D1[x] = D[x]
      /\ D1[n] = IF IsCentral(n) THEN AfterDelta(n, d0) ELSE d0
      /\ Total(I1) /\ \A x \in Endpoint :
                 I1[x] = (IF x = n THEN Tail(I[x]) ELSE I[x])
                            \o (IF IsCentral(n) /\ P[x] # 0 THEN DeltaFor(n, d0, x) ELSE <<>>)
  BY <1>1 DEF TakesUpdate
<1>3. IsDb(d0)
  BY <1>2, ModuleFacts, <1>1, IncorporateDb
<1>4. PICK d1 : d1 = IF IsCentral(n) THEN [d0 EXCEPT !.event = TRUE] ELSE d0
  OBVIOUS
<1>5. /\ IsDb(d1) /\ d1.ep = d0.ep /\ d1.entry = d0.entry /\ d1.nextID = d0.nextID
      /\ IF IsCentral(n) THEN d1.event = TRUE ELSE d1.event = d0.event
  BY <1>3, EventIs, <1>4
<1>6. PICK D2 : D2 = [x \in Endpoint |-> IF x = n THEN d1 ELSE D[x]]
  OBVIOUS
<1>7. Total(D2) /\ D2[n] = d1 /\ \A x \in Endpoint : x # n => D2[x] = D[x]
  BY <1>2, <1>6 DEF Total
<1>8. PICK I2 : I2 = [x \in Endpoint |-> IF x = n THEN Tail(I[x]) ELSE I[x]]
  OBVIOUS
<1>9. /\ Total(I2) /\ I2[n] = Tail(I[n]) /\ \A x \in Endpoint : x # n => I2[x] = I[x]
      /\ \A x \in Endpoint : I2[x] = IF x = n THEN Tail(I[x]) ELSE I[x]
  BY <1>2, <1>8 DEF Total
<1>14. Incorporates(D2[n], n, D[n], m)
  BY <1>1, <1>5, <1>7, Zenon DEF Incorporates
<1>15. Takes(D, I, P, n, m, D2, I2)
  BY <1>1, <1>2, <1>7, <1>9, <1>14, Zenon DEF Takes
<1>10. PICK at1, mk1 : Good(D2, I2, P, W, s, at1, mk1)
  BY <1>15, TakeStep
<1>11. CASE ~IsCentral(n)
  <2>1. D1 = D2
    <3>1. \A x \in Endpoint : D1[x] = D2[x]
      BY <1>2, <1>4, <1>7, <1>11
    <3>2. QED
      BY <3>1, <1>2, <1>7 DEF Total
  <2>2. I1 = I2
    <3>1. ASSUME NEW x \in Endpoint PROVE I1[x] = I2[x]
      <4>1. I2[x] \in Seq(Message)
        BY <1>10, ModuleFacts
      <4>2. I1[x] = I2[x] \o <<>>
        BY <1>2, <1>9, <1>11
      <4>3. QED
        BY <4>1, <4>2, ConcatEmptySeq
    <3>2. QED
      BY <3>1, <1>2, <1>9 DEF Total
  <2>3. QED
    BY <2>1, <2>2, <1>10, <1>11
<1>12. CASE IsCentral(n)
  <2>1. d0.ep = D2[n].ep /\ d0.entry = D2[n].entry /\ d0.nextID = D2[n].nextID
    BY <1>5, <1>7
  <2>2. D1[n] = AfterDelta(n, d0) /\ \A x \in Endpoint : x # n => D1[x] = D2[x]
    BY <1>2, <1>7, <1>12
  <2>3. \A x \in Endpoint : I1[x] = I2[x] \o (IF P[x] # 0 THEN DeltaFor(n, d0, x) ELSE <<>>)
    BY <1>2, <1>9, <1>12
  <2>4. Spreads(D2, I2, P, n, d0, D1, I1)
    BY <2>1, <2>2, <2>3, <1>2, <1>3 DEF Spreads
  <2>5. \E mk2 : Good(D1, I1, P, W, s, at1, mk2)
    BY <2>4, <1>10, SpreadStep
  <2>6. \A x \in Endpoint : DeltaFor(n, d0, x) \in Seq(Message)
    BY <2>1, <1>2, <1>3, <1>10, SpreadDelta
  <2>7. QED
    BY <2>5, <2>6, <1>1
<1>13. QED
  BY <1>11, <1>12

LEMMA OnUpdateKept ==
    ASSUME Windows = {}, Kept, Waits, NEW n \in Endpoint, OnUpdate(n)
    PROVE  Kept'
<1>1. PICK at, mk : Good(db, inbox, pid, written, stops, at, mk)
  BY DEF Kept
<1>2. PICK d, after, conf :
        /\ d = IncorporateDelta(n, db[n], Head(inbox[n]))
        /\ after = IF IsCentral(n) THEN AfterDelta(n, d) ELSE d
        /\ conf = Confirmations(n, after, waiting[n])
  OBVIOUS
<1>3. PICK deltas : deltas = IF IsCentral(n) THEN Deltas(n, d) ELSE Silence
  OBVIOUS
<1>4. /\ pid[n] # 0 /\ inbox[n] # <<>> /\ Head(inbox[n]).type = "update"
      /\ pid' = pid /\ stops' = stops /\ written' = written
  BY DEF OnUpdate, Receives
<1>5. /\ db' = [db EXCEPT ![n] = after]
      /\ inbox' = Deliver(n, TRUE, [e \in Endpoint |-> deltas[e] \o conf[e]])
  BY <1>2, <1>3 DEF OnUpdate
<1>6. Total(db') /\ db'[n] = after /\ \A e \in Endpoint : e # n => db'[e] = db[e]
  BY <1>1, <1>5 DEF Good, Base, Total
<1>7. PICK base : base = [x \in Endpoint |-> IF x = n THEN Tail(inbox[x]) ELSE inbox[x]]
  OBVIOUS
<1>8. PICK own : own = [x \in Endpoint |-> IF IsCentral(n) /\ pid[x] # 0 THEN DeltaFor(n, d, x) ELSE <<>>]
  OBVIOUS
<1>9. PICK I1 : I1 = [x \in Endpoint |-> base[x] \o own[x]]
  OBVIOUS
<1>10. PICK out : out = [x \in Endpoint |-> IF pid[x] # 0 THEN conf[x] ELSE <<>>]
  OBVIOUS
<1>11. Total(I1) /\ \A x \in Endpoint :
                 I1[x] = (IF x = n THEN Tail(inbox[x]) ELSE inbox[x])
                            \o (IF IsCentral(n) /\ pid[x] # 0 THEN DeltaFor(n, d, x) ELSE <<>>)
  BY <1>7, <1>8, <1>9 DEF Total
<1>12. TakesUpdate(db, inbox, pid, n, db', I1)
  BY <1>2, <1>4, <1>6, <1>11 DEF TakesUpdate
<1>13. /\ \E at1, mk1 : Good(db', I1, pid, written, stops, at1, mk1)
       /\ IsCentral(n) => \A x \in Endpoint : DeltaFor(n, d, x) \in Seq(Message)
  BY <1>1, <1>2, <1>12, TakesUpdateStep
<1>14. PICK at1, mk1 : Good(db', I1, pid, written, stops, at1, mk1)
  BY <1>13
<1>15. IsDb(after)
  BY <1>14, ModuleFacts, <1>6
<1>16. \A x \in Endpoint : conf[x] \in Seq(Message) /\ \A j \in 1..Len(conf[x]) : conf[x][j].type # "update"
  BY <1>2, <1>15, ConfirmationsAre DEF Waits
<1>17. \A x \in Endpoint : out[x] \in Seq(Message) /\ \A j \in 1..Len(out[x]) : out[x][j].type # "update"
  BY <1>10, <1>16
<1>18. ASSUME NEW x \in Endpoint PROVE inbox'[x] = I1[x] \o out[x]
  <2>1. inbox[x] \in Seq(Message) /\ inbox[n] \in Seq(Message)
    BY <1>1, ModuleFacts
  <2>2. base[x] \in Seq(Message)
    BY <2>1, <1>4, TailIs, <1>7
  <2>3. <<>> \in Seq(Message)
    OBVIOUS
  <2>4. own[x] \in Seq(Message) /\ conf[x] \in Seq(Message)
    BY <2>3, <1>8, <1>13, <1>16
  <2>5. inbox'[x] = base[x] \o (IF pid[x] # 0 THEN deltas[x] \o conf[x] ELSE <<>>)
    BY <1>5, <1>7 DEF Deliver, Reaches
  <2>6. pid[x] # 0 => own[x] = deltas[x]
    BY <1>3, <1>8 DEF Deltas, Silence
  <2>7. PICK a, b, c : a = base[x] /\ b = own[x] /\ c = conf[x]
    OBVIOUS
  <2>8. a \in Seq(Message) /\ b \in Seq(Message) /\ c \in Seq(Message) /\ I1[x] = a \o b
    BY <2>2, <2>4, <2>7, <1>9
  <2>9. CASE pid[x] # 0
    <3>1. inbox'[x] = a \o (b \o c)
      BY <2>5, <2>6, <2>7, <2>9
    <3>2. a \o (b \o c) = (a \o b) \o c
      BY <2>8, ConcatAssociative
    <3>3. QED
      BY <3>1, <3>2, <2>7, <2>8, <2>9, <1>10
  <2>10. CASE pid[x] = 0
    BY <2>7, <2>10, <1>8, <1>10, <2>5, <2>8, ConcatEmptySeq
  <2>11. QED
    BY <2>9, <2>10
<1>19. Total(inbox')
  BY <1>5 DEF Deliver, Total
<1>20. Appends(I1, out, inbox')
  BY <1>17, <1>18, <1>19 DEF Appends
<1>21. \E mk2 : Good(db', inbox', pid, written, stops, at1, mk2)
  BY <1>14, <1>20, AddsStep
<1>22. QED
  BY <1>4, <1>21 DEF Kept

LEMMA HandledKept ==
    ASSUME Windows = {}, Kept, NEW n \in Endpoint, inbox[n] # <<>>, Head(inbox[n]).type # "update",
           NEW out, inbox' = Deliver(n, TRUE, out),
           \A e \in Endpoint : out[e] \in Seq(Message) /\ \A j \in 1..Len(out[e]) : out[e][j].type # "update",
           db' = db, pid' = pid, written' = written, stops' = stops
    PROVE  Kept'
<1>1. PICK at, mk : Good(db, inbox, pid, written, stops, at, mk)
  BY DEF Kept
<1>2. PICK o : o = [e \in Endpoint |-> IF pid[e] # 0 THEN out[e] ELSE <<>>]
  OBVIOUS
<1>3. \A e \in Endpoint : o[e] = IF pid[e] # 0 THEN out[e] ELSE <<>>
  BY <1>2
<1>4. \A e \in Endpoint : o[e] \in Seq(Message) /\ \A j \in 1..Len(o[e]) : o[e][j].type # "update"
  <2>1. <<>> \in Seq(Message) /\ Len(<<>>) = 0 /\ 1..0 = {}
    OBVIOUS
  <2>2. QED
    BY <2>1, <1>3
<1>5. Total(inbox') /\ \A e \in Endpoint : inbox'[e] = (IF e = n THEN Tail(inbox[e]) ELSE inbox[e]) \o o[e]
  BY <1>3 DEF Deliver, Reaches, Total
<1>6. Handles(inbox, n, o, inbox')
  BY <1>4, <1>5 DEF Handles
<1>7. \E mk1 : Good(db, inbox', pid, written, stops, at, mk1)
  BY <1>1, <1>6, HandleStep
<1>8. QED
  BY <1>7 DEF Kept

CheckpointType == [type : {"checkpoint"}, id : Nat, wm : Watermarks]
NotifyType == [type : {"notify"}, for : Endpoint, id : Nat, wm : Watermarks]

LEMMA CheckpointIs ==
    ASSUME NEW m \in Message, m.type = "checkpoint"
    PROVE  m \in CheckpointType /\ m.id \in Nat /\ m.wm \in Watermarks
<1>1. m \in CheckpointType
  BY DEF Message, CheckpointType
<1>2. QED
  BY <1>1 DEF CheckpointType

LEMMA NotifyIs ==
    ASSUME NEW m \in Message, m.type = "notify"
    PROVE  m \in NotifyType /\ m.for \in Endpoint /\ m.id \in Nat /\ m.wm \in Watermarks
<1>1. m \in NotifyType
  BY DEF Message, NotifyType
<1>2. QED
  BY <1>1 DEF NotifyType

LEMMA NotifyOnArcologyUpdateKept ==
    ASSUME Windows = {}, Kept, NEW n \in Endpoint, NotifyOnArcologyUpdate(n)
    PROVE  Kept'
<1>1. PICK at, mk : Good(db, inbox, pid, written, stops, at, mk)
  BY DEF Kept
<1>2. PICK msg, notify, out :
        /\ msg = Head(inbox[n])
        /\ notify = [type |-> "notify", for |-> n, id |-> msg.id, wm |-> msg.wm]
        /\ out = [e \in Endpoint |-> IF e \in DOMAIN db[n].ep THEN <<notify>> ELSE <<>>]
  OBVIOUS
<1>3. /\ inbox[n] # <<>> /\ msg.type = "checkpoint" /\ inbox' = Deliver(n, TRUE, out)
      /\ db' = db /\ pid' = pid /\ written' = written /\ stops' = stops
  BY <1>2 DEF NotifyOnArcologyUpdate, Receives
<1>4. msg \in Message
  BY <1>1, ModuleFacts, <1>2, <1>3, TailIs
<1>5. notify \in Message /\ notify.type # "update"
  BY <1>3, <1>4, CheckpointIs, <1>2 DEF NotifyType, Message
<1>6. \A e \in Endpoint : out[e] \in Seq(Message) /\ \A j \in 1..Len(out[e]) : out[e][j].type # "update"
  BY <1>5, <1>2
<1>7. Head(inbox[n]).type # "update"
  BY <1>2, <1>3
<1>8. QED
  BY <1>3, <1>6, <1>7, HandledKept

(* The checkpoint that an endpoint is asked to notify of. *)
Asking(n, d, msg) ==
    [for |-> msg.for, id |-> msg.id,
     wm |-> [i \in DOMAIN msg.wm |->
                [msg.wm[i] EXCEPT !.id = IF msg.wm[i].end \in DOMAIN d.ep THEN d.ep[msg.wm[i].end].id ELSE NullID]]]

LEMMA AskingIs ==
    ASSUME NEW n \in Endpoint, NEW d, IsDb(d), NEW msg \in Message, msg.type = "notify",
           NEW c, c = Asking(n, d, msg)
    PROVE  /\ c \in CheckType /\ c.for = msg.for /\ c.id = msg.id /\ Len(c.wm) = Len(msg.wm)
           /\ \A i \in 1..Len(msg.wm) : /\ c.wm[i].end = msg.wm[i].end /\ c.wm[i].seq = msg.wm[i].seq
                                        /\ c.wm[i].id = IF msg.wm[i].end \in DOMAIN d.ep THEN d.ep[msg.wm[i].end].id
                                                        ELSE NullID
<1>1. PICK y : y = msg.wm
  OBVIOUS
<1>2. msg.for \in Endpoint /\ msg.id \in Nat /\ y \in Seq(MarkType)
  BY <1>1, NotifyIs DEF Watermarks, MarkType
<1>3. Len(y) \in Nat /\ DOMAIN y = 1..Len(y)
  BY <1>2
<1>4. PICK id : id = [i \in 1..Len(y) |-> IF y[i].end \in DOMAIN d.ep THEN d.ep[y[i].end].id ELSE NullID]
  OBVIOUS
<1>5. \A i \in 1..Len(y) : /\ id[i] = IF y[i].end \in DOMAIN d.ep THEN d.ep[y[i].end].id ELSE NullID
                           /\ id[i] \in Nat \cup {NullID}
  BY <1>4, RecordIs
<1>6. PICK z : z = [i \in 1..Len(y) |-> [y[i] EXCEPT !.id = id[i]]]
  OBVIOUS
<1>7. ASSUME NEW i \in 1..Len(y)
      PROVE  z[i] \in MarkType /\ z[i].end = y[i].end /\ z[i].seq = y[i].seq /\ z[i].id = id[i]
  <2>1. PICK w \in MarkType : w = y[i]
    BY <1>2, ElementOfSeq
  <2>2. PICK v \in Nat \cup {NullID} : v = id[i]
    BY <1>5
  <2>3. z[i] = [w EXCEPT !.id = v]
    BY <2>1, <2>2, <1>6
  <2>4. PICK u : u = z[i]
    OBVIOUS
  <2>5. u \in MarkType /\ u.end = w.end /\ u.seq = w.seq /\ u.id = v
    BY ONLY <2>3, <2>4, w \in MarkType, v \in Nat \cup {NullID}, MarkIs
  <2>6. QED
    BY <2>1, <2>2, <2>4, <2>5
<1>8. z \in Seq(MarkType) /\ Len(z) = Len(y)
  <2>1. PICK X, h : X = MarkType /\ h = Len(y)
    OBVIOUS
  <2>2. z \in [1..h -> X] /\ h \in Nat
    BY <2>1, <1>3, <1>6, <1>7
  <2>3. z \in Seq(X)
    BY ONLY <2>2, SeqDef
  <2>4. Len(z) \in Nat /\ 1..Len(z) = 1..h
    BY <2>2, <2>3
  <2>5. Len(z) = h
    BY <2>2, <2>4
  <2>6. QED
    BY <2>1, <2>3, <2>5
<1>9. c = [for |-> msg.for, id |-> msg.id, wm |-> z]
  BY <1>3, <1>5, <1>6, <1>1 DEF Asking
<1>10. c.for = msg.for /\ c.id = msg.id /\ c.wm = z
  BY <1>9
<1>11. c \in CheckType
  BY <1>2, <1>8, <1>9 DEF CheckType, Watermarks, MarkType
<1>12. QED
  BY <1>1, <1>5, <1>7, <1>8, <1>10, <1>11

LEMMA NotifyOnEndpointUpdateKept ==
    ASSUME Windows = {}, Kept, NEW n \in Endpoint, NotifyOnEndpointUpdate(n)
    PROVE  Kept'
<1>1. PICK at, mk : Good(db, inbox, pid, written, stops, at, mk)
  BY DEF Kept
<1>10. PICK msg, d : msg = Head(inbox[n]) /\ d = db[n]
  OBVIOUS
<1>11. PICK c : c = Asking(n, d, msg)
  OBVIOUS
<1>12. PICK out : out = Confirmations(n, d, {c})
  OBVIOUS
<1>2. msg = Head(inbox[n]) /\ d = db[n] /\ c = Asking(n, d, msg) /\ out = Confirmations(n, d, {c})
  BY <1>10, <1>11, <1>12
<1>13. inbox' = Deliver(n, TRUE, Confirmations(n, db[n], {Asking(n, db[n], Head(inbox[n]))}))
  BY Zenon DEF NotifyOnEndpointUpdate, Asking
<1>14. /\ inbox[n] # <<>> /\ Head(inbox[n]).type = "notify"
       /\ db' = db /\ pid' = pid /\ written' = written /\ stops' = stops
  <2>1. /\ Receives(n, "notify")
        /\ UNCHANGED <<db, arcology, pid, start, written, stops, connected>>
    BY Zenon DEF NotifyOnEndpointUpdate
  <2>2. QED
    BY ONLY <2>1 DEF Receives
<1>3. /\ inbox[n] # <<>> /\ msg.type = "notify" /\ inbox' = Deliver(n, TRUE, out)
      /\ db' = db /\ pid' = pid /\ written' = written /\ stops' = stops
  BY <1>2, <1>13, <1>14
<1>4. msg \in Message
  BY <1>1, ModuleFacts, <1>2, <1>3, TailIs
<1>5. IsDb(d)
  BY <1>1, <1>2, ModuleFacts
<1>6. c \in CheckType
  BY <1>2, <1>3, <1>4, <1>5, AskingIs
<1>7. \A e \in Endpoint : out[e] \in Seq(Message) /\ \A j \in 1..Len(out[e]) : out[e][j].type # "update"
  <2>1. PICK S : S = {c}
    OBVIOUS
  <2>2. S \subseteq CheckType /\ IsFiniteSet(S)
    BY <2>1, <1>6, FS_Singleton
  <2>3. SUFFICES ASSUME NEW x \in Endpoint, NEW z, z = Confirmations(n, d, S)[x]
                 PROVE  z \in Seq(Message) /\ \A j \in 1..Len(z) : z[j].type # "update"
    BY <2>1, <1>2, Zenon
  <2>4. QED
    BY ONLY n \in Endpoint, x \in Endpoint, <2>2, <2>3, <1>5, ConfirmationsAre
<1>8. Head(inbox[n]).type # "update"
  BY <1>2, <1>3
<1>9. QED
  BY <1>3, <1>7, <1>8, HandledKept

LEMMA OnEndpointUpdatedKept ==
    ASSUME Windows = {}, Kept, NEW n \in Endpoint, OnEndpointUpdated(n)
    PROVE  Kept'
<1>1. /\ inbox[n] # <<>> /\ Head(inbox[n]).type = "updated" /\ inbox' = Deliver(n, TRUE, Silence)
      /\ db' = db /\ pid' = pid /\ written' = written /\ stops' = stops
  BY DEF OnEndpointUpdated, Receives
<1>2. \A e \in Endpoint : Silence[e] \in Seq(Message) /\ \A j \in 1..Len(Silence[e]) : Silence[e][j].type # "update"
  BY DEF Silence
<1>3. PICK out : out = Silence
  OBVIOUS
<1>4. QED
  BY <1>1, <1>2, <1>3, HandledKept

LEMMA Totals ==
    ASSUME NEW D, NEW I, NEW P, NEW W, NEW s, NEW at, NEW mk, Good(D, I, P, W, s, at, mk)
    PROVE  Total(D) /\ Total(I) /\ Total(P) /\ Total(W) /\ s \in Nat
BY DEF Good, Base, Total

LEMMA ReorderKept ==
    ASSUME Windows = {}, Kept, NEW n \in Endpoint, Reorder(n)
    PROVE  Kept'
<1>1. PICK at, mk : Good(db, inbox, pid, written, stops, at, mk)
  BY DEF Kept
<1>2. db' = db /\ pid' = pid /\ written' = written /\ stops' = stops
  BY DEF Reorder
<1>3. PICK i \in 1..(Len(inbox[n]) - 1) :
          /\ Foreign(n, inbox[n][i]) /\ Foreign(n, inbox[n][i + 1])
          /\ inbox[n][i].from # inbox[n][i + 1].from
          /\ \A x \in inbox[n][i].entries, y \in inbox[n][i + 1].entries : x.key # y.key
          /\ inbox' = [inbox EXCEPT ![n][i] = inbox[n][i + 1], ![n][i + 1] = inbox[n][i]]
  BY DEF Reorder
<1>4. PICK q : q = inbox[n]
  OBVIOUS
<1>5. q \in Seq(Message) /\ Len(q) \in Nat /\ Total(inbox)
  BY <1>1, <1>4, ModuleFacts, Totals
<1>6. Apart(q[i], q[i + 1])
  BY <1>3, <1>4 DEF Apart, Foreign
<1>7. i \in 1..Len(q) /\ i + 1 \in 1..Len(q) /\ i \in 1..Len(q) - 1
  BY <1>3, <1>4, <1>5
<1>8. PICK q1 : q1 = [q EXCEPT ![i] = q[i + 1], ![i + 1] = q[i]]
  OBVIOUS
<1>9. inbox' = [inbox EXCEPT ![n] = q1]
  BY <1>3, <1>4, <1>8
<1>10. Total(inbox') /\ inbox'[n] = q1 /\ \A x \in Endpoint : x # n => inbox'[x] = inbox[x]
  BY <1>5, <1>9 DEF Total
<1>11. q1 \in Seq(Message) /\ Turned(q1, q, i)
  <2>1. PICK k : k = i + 1
    OBVIOUS
  <2>2. k # i /\ k \in 1..Len(q) /\ q1 = [q EXCEPT ![i] = q[k], ![k] = q[i]]
    BY <2>1, <1>3, <1>7, <1>8
  <2>3. q[i] \in Message /\ q[k] \in Message /\ DOMAIN q = 1..Len(q)
    BY <2>2, <1>5, <1>7, ElementOfSeq
  <2>4. DOMAIN q1 = 1..Len(q) /\ \A j \in 1..Len(q) : q1[j] = IF j = k THEN q[i] ELSE IF j = i THEN q[k] ELSE q[j]
    BY ONLY <2>2, <2>3, <1>7
  <2>5. \A j \in 1..Len(q) : q1[j] \in Message
    BY <2>3, <2>4, <1>5, ElementOfSeq
  <2>6. q1 \in Seq(Message) /\ Len(q1) = Len(q)
    <3>1. PICK X, h : X = Message /\ h = Len(q)
      OBVIOUS
    <3>2. q1 = [j \in 1..h |-> q1[j]]
      BY ONLY <3>1, <2>2, <2>3
    <3>3. q1 \in [1..h -> X] /\ h \in Nat
      BY <3>1, <3>2, <2>5, <1>5
    <3>4. q1 \in Seq(X)
      BY ONLY <3>3, SeqDef
    <3>5. Len(q1) \in Nat /\ 1..Len(q1) = 1..h
      BY <3>3, <3>4
    <3>6. Len(q1) = h
      BY <3>3, <3>5
    <3>7. QED
      BY <3>1, <3>4, <3>6
  <2>7. \A j \in 1..Len(q) : q1[j] = q[Turn(i, j)]
    BY <2>1, <2>2, <2>4 DEF Turn
  <2>8. QED
    BY <2>6, <2>7, <1>7 DEF Turned
<1>12. \E mk1 : Good(db, inbox', pid, written, stops, at, mk1)
  BY <1>1, <1>4, <1>6, <1>7, <1>10, <1>11, TurnKeeps
<1>13. QED
  BY <1>2, <1>12 DEF Kept

LEMMA LoseKept ==
    ASSUME Windows = {}, Kept, NEW n \in Endpoint, Lose(n)
    PROVE  Kept'
<1>1. PICK at, mk : Good(db, inbox, pid, written, stops, at, mk)
  BY DEF Kept
<1>2. db' = db /\ pid' = pid /\ written' = written /\ stops' = stops
  BY DEF Lose
<1>3. PICK i \in 1..Len(inbox[n]) : inbox[n][i].entries = {} /\ inbox' = [inbox EXCEPT ![n] = RemoveAt(@, i)]
  BY DEF Lose
<1>4. PICK q : q = inbox[n]
  OBVIOUS
<1>5. q \in Seq(Message) /\ Len(q) \in Nat /\ Total(inbox)
  BY <1>1, <1>4, ModuleFacts, Totals
<1>6. PICK q1 : q1 = RemoveAt(q, i)
  OBVIOUS
<1>7. inbox' = [inbox EXCEPT ![n] = q1]
  BY <1>3, <1>4, <1>6
<1>8. Total(inbox') /\ inbox'[n] = q1 /\ \A x \in Endpoint : x # n => inbox'[x] = inbox[x]
  BY <1>5, <1>7 DEF Total
<1>9. i \in 1..Len(q)
  BY <1>3, <1>4
<1>10. q1 \in Seq(Message) /\ Without(q1, q, i)
  BY <1>5, <1>6, <1>9, RemoveAtIs
<1>11. \E mk1 : Good(db, inbox', pid, written, stops, at, mk1)
  <2>1. PICK I1 : I1 = inbox'
    OBVIOUS
  <2>2. Total(I1) /\ I1[n] \in Seq(Message) /\ Without(I1[n], inbox[n], i) /\ \A x \in Endpoint : x # n => I1[x] = inbox[x]
    BY <2>1, <1>4, <1>8, <1>10
  <2>3. inbox[n][i].type = "update" => inbox[n][i].entries = {}
    BY <1>3
  <2>4. i \in 1..Len(inbox[n]) /\ n \in Endpoint
    BY <1>3
  <2>5. \E mk1 : Good(db, I1, pid, written, stops, at, mk1)
    BY ONLY <1>1, <2>2, <2>3, <2>4, DropKeeps
  <2>6. QED
    BY <2>1, <2>5
<1>12. QED
  BY <1>2, <1>11 DEF Kept

LEMMA StopKept ==
    ASSUME Kept, NEW m \in Endpoint, Stop(m)
    PROVE  Kept'
<1>1. PICK at, mk : Good(db, inbox, pid, written, stops, at, mk)
  BY DEF Kept
<1>2. /\ m \in Modules /\ pid' = [pid EXCEPT ![m] = 0] /\ stops' = stops + 1
      /\ db' = db /\ inbox' = inbox /\ written' = written
  BY DEF Stop
<1>3. PICK P1, s1 : P1 = pid' /\ s1 = stops'
  OBVIOUS
<1>4. pid \in [Endpoint -> Nat]
  BY <1>1 DEF Good, Base
<1>5. P1 \in [Endpoint -> Nat] /\ P1[m] = 0 /\ \A n \in Endpoint : n # m => P1[n] = pid[n]
  BY <1>2, <1>3, <1>4
<1>6. s1 = stops + 1
  BY <1>2, <1>3
<1>7. Good(db, inbox, P1, written, s1, at, mk)
  BY <1>1, <1>2, <1>5, <1>6, StopKeeps
<1>8. QED
  BY <1>2, <1>3, <1>7 DEF Kept

LEMMA SameKept ==
    ASSUME Kept, db' = db, inbox' = inbox, pid' = pid, written' = written, stops' = stops
    PROVE  Kept'
BY DEF Kept

(* What the main loop and Exarch know of the modules. *)
StartType == [state : {"launched", "told", "running", "stopped"}, seq : Nat]
Starts ==
    /\ start \in [Endpoint -> StartType]
    /\ \A n \in Endpoint : IsCentral(n) => start[n].state = "running"
    /\ \A m \in Modules :
          /\ start[m].state \in {"launched", "told"} => pid[m] # 0
          /\ (start[m].state = "running" /\ pid[m] # 0) => m \in DOMAIN db[CentralOf(m)].ep
          /\ start[m].state = "stopped" => pid[m] = 0
Connects ==
    /\ connected \subseteq Centrals \X Centrals
    /\ \A c, e \in Centrals : <<c, e>> \in connected => e \in DOMAIN db[c].ep

SameBut(d1, d) == IsDb(d1) /\ d1.ep = d.ep /\ d1.entry = d.entry /\ d1.nextID = d.nextID /\ d1.event = TRUE

LEMMA AddedIs ==
    ASSUME NEW c, NEW d, NEW e, NEW p, e \in DOMAIN d.ep => p = 0 \/ p = d.ep[e].pid,
           NEW d0, IsKnown(d0, c, d, e, p), NEW d1, SameBut(d1, d0)
    PROVE  /\ IsDb(d0) /\ IsAdded(d1, c, d, e, p) /\ e \in DOMAIN d0.ep /\ DOMAIN d.ep \subseteq DOMAIN d0.ep
<1>4. /\ IsDb(d0) /\ d0.entry = d.entry /\ DOMAIN d0.ep = DOMAIN d.ep \cup {e}
      /\ \A f \in DOMAIN d.ep : f # e => d0.ep[f] = d.ep[f]
      /\ e \notin DOMAIN d.ep => d0.ep[e] = AddedAs(c, e, p, d.nextID) /\ d0.nextID = d.nextID + 1
      /\ e \in DOMAIN d.ep => d0.nextID = d.nextID
      /\ (e \in DOMAIN d.ep /\ ~(p # 0 /\ p # d.ep[e].pid)) => d0.ep[e] = d.ep[e]
  BY ONLY IsKnown(d0, c, d, e, p) DEF IsKnown
<1>5. \A f \in DOMAIN d.ep : d0.ep[f] = d.ep[f]
  BY <1>4
<1>3. IsDb(d1) /\ d1.ep = d0.ep /\ d1.entry = d0.entry /\ d1.nextID = d0.nextID /\ d1.event = TRUE
  BY DEF SameBut
<1>6. IsAdded(d1, c, d, e, p)
  BY ONLY <1>3, <1>4, <1>5 DEF IsAdded
<1>7. QED
  BY <1>4, <1>6

(* What Exarch of c writes about e. *)
LEMMA RecordedIs ==
    ASSUME NEW c \in Endpoint, NEW d, IsDb(d), c \in DOMAIN d.ep, NEW e \in Endpoint, stops \in Nat,
           NEW k, k = EntryAbout[e], NEW v, v = <<stops, d.ep[c].recv + 1>>
    PROVE  k \in Key /\ v \in Val /\ IsWritten(Recorded(c, d, e), c, d, k, v)
<1>1. k \in Key
  BY MnemosynthAssumption
<1>2. v \in Val
  BY RecordIs DEF Val
<1>3. IsWritten(WriteEntry(c, d, k, v), c, d, k, v)
  BY <1>1, <1>2, WriteIs
<1>4. QED
  BY <1>1, <1>2, <1>3 DEF Recorded

LEMMA WrittenSame ==
    ASSUME NEW x, NEW c, NEW d, NEW d1, d1.ep = d.ep, d1.entry = d.entry, d1.nextID = d.nextID,
           NEW k, NEW v, IsWritten(x, c, d, k, v)
    PROVE  IsWritten(x, c, d1, k, v)
BY DEF IsWritten

LEMMA AboutKeyFrom ==
    ASSUME NEW c \in Endpoint, IsCentral(c), NEW e \in Endpoint,
           (e \in Modules /\ Local(c, e)) \/ (e \in Centrals /\ e # c /\ c[1] = Prime), NEW v
    PROVE  KeyFrom(c, EntryAbout[e], v) /\ \A m \in Modules : EntryAbout[e] # PortsOf[m]
<1>1. WriterOf[EntryAbout[e]] = c
  <2>1. CASE e \in Modules /\ Local(c, e)
    BY <2>1, Places, MnemosynthAssumption
  <2>2. CASE e \in Centrals /\ e # c /\ c[1] = Prime
    BY MnemosynthAssumption, <2>2 DEF Centrals, IsCentral
  <2>3. QED
    BY <2>1, <2>2
<1>2. ASSUME NEW m \in Modules PROVE EntryAbout[e] # PortsOf[m]
  BY MnemosynthAssumption, <1>1 DEF Modules
<1>3. QED
  BY <1>1, <1>2 DEF KeyFrom

(* c comes to know e and writes about it. *)
Meeting(D, P, W, c, e, p, d, D1, W1) ==
    /\ c \in Endpoint /\ IsCentral(c) /\ e \in Endpoint /\ p \in Nat
    /\ \/ e \in Modules /\ Local(c, e) /\ p = P[e] /\ P[e] # 0
       \/ e \in Centrals /\ e # c /\ c[1] = Prime /\ p = 0
    /\ d = GetOrAddEndpoint(c, D[c], e, p)
    /\ Total(D1) /\ D1[c] = Recorded(c, d, e) /\ \A n \in Endpoint : n # c => D1[n] = D[n]
    /\ Total(W1) /\ W1[c] = Append(W[c], [key |-> EntryAbout[e], val |-> <<stops, d.ep[c].recv + 1>>])
    /\ \A n \in Endpoint : n # c => W1[n] = W[n]

LEMMA MetAndRecorded ==
    ASSUME NEW D, NEW I, NEW P, NEW W, NEW at, NEW mk, Good(D, I, P, W, stops, at, mk),
           NEW c, NEW e, NEW p, NEW d, NEW D1, NEW W1, Meeting(D, P, W, c, e, p, d, D1, W1)
    PROVE  (\E at1 : Good(D1, I, P, W1, stops, at1, mk)) /\ e # c /\ IsDb(d) /\ DOMAIN D1[c].ep = DOMAIN d.ep /\ e \in DOMAIN d.ep
<1> PICK v : v = <<stops, d.ep[c].recv + 1>>
  OBVIOUS
<1> SUFFICES
      ASSUME c \in Endpoint, IsCentral(c), e \in Endpoint, p \in Nat,
             (e \in Modules /\ Local(c, e) /\ p = P[e] /\ P[e] # 0) \/ (e \in Centrals /\ e # c /\ c[1] = Prime /\ p = 0),
             d = GetOrAddEndpoint(c, D[c], e, p),
             Total(D1), D1[c] = Recorded(c, d, e), \A n \in Endpoint : n # c => D1[n] = D[n],
             Total(W1), W1[c] = Append(W[c], [key |-> EntryAbout[e], val |-> v]),
             \A n \in Endpoint : n # c => W1[n] = W[n]
      PROVE  (\E at1 : Good(D1, I, P, W1, stops, at1, mk)) /\ e # c /\ IsDb(d) /\ DOMAIN D1[c].ep = DOMAIN d.ep /\ e \in DOMAIN d.ep
  BY Zenon DEF Meeting
<1>1. e # c /\ (Local(c, e) => p = P[e] /\ P[e] # 0)
  BY Places DEF Modules, Centrals
<1>2. IsDb(D[c]) /\ c \in DOMAIN D[c].ep /\ stops \in Nat /\ Total(D)
  BY ModuleFacts, Totals DEF Numbered
<1>3. e \in DOMAIN D[c].ep => p = 0 \/ p = D[c].ep[e].pid
  <2>1. CASE p = 0
    BY <2>1
  <2>2. CASE p # 0
    BY <2>2, ModuleFacts DEF Good, Base, Processes, Direct, PidFits
  <2>3. QED
    BY <2>1, <2>2
<1>5. PICK d2 : d2 = D[c]
  OBVIOUS
<1>21. IsKnown(d, c, d2, e, p)
  BY <1>2, <1>5, GetOrAddIs
<1>22. IsDb(d)
  BY <1>21 DEF IsKnown
<1>4. PICK d1 : d1 = [d EXCEPT !.event = TRUE]
  OBVIOUS
<1>23. SameBut(d1, d)
  <2>1. PICK x : x = d
    OBVIOUS
  <2>2. IsDb(x) /\ d1 = [x EXCEPT !.event = TRUE]
    BY <2>1, <1>4, <1>22
  <2>3. IsDb(d1) /\ d1.ep = x.ep /\ d1.entry = x.entry /\ d1.nextID = x.nextID /\ d1.event = TRUE
    BY ONLY <2>2, EventIs
  <2>4. QED
    BY <2>1, <2>3 DEF SameBut
<1>6. /\ IsDb(d) /\ IsDb(d1) /\ IsAdded(d1, c, d2, e, p) /\ DOMAIN d2.ep \subseteq DOMAIN d.ep
      /\ d1.ep = d.ep /\ d1.entry = d.entry /\ d1.nextID = d.nextID
  <2>1. e \in DOMAIN d2.ep => p = 0 \/ p = d2.ep[e].pid
    BY <1>3, <1>5
  <2>2. IsAdded(d1, c, d2, e, p) /\ DOMAIN d2.ep \subseteq DOMAIN d.ep
    BY ONLY <2>1, <1>21, <1>23, AddedIs
  <2>3. QED
    BY <2>2, <1>22, <1>23 DEF SameBut
<1>7. PICK D2 : D2 = [n \in Endpoint |-> IF n = c THEN d1 ELSE D[n]]
  OBVIOUS
<1>8. Total(D2) /\ D2[c] = d1 /\ \A n \in Endpoint : n # c => D2[n] = D[n]
  BY <1>7 DEF Total
<1>9. Meets(D, P, c, e, p, D2)
  BY <1>1, <1>5, <1>6, <1>8 DEF Meets
<1>10. Good(D2, I, P, W, stops, at, mk)
  BY <1>9, AddKeeps
<1>11. PICK k : k = EntryAbout[e]
  OBVIOUS
<1>12. k \in Key /\ v \in Val /\ IsWritten(D1[c], c, d, k, v)
  BY <1>2, <1>5, <1>6, <1>11, RecordedIs
<1>13. IsWritten(D1[c], c, D2[c], k, v)
  BY <1>6, <1>8, <1>12, WrittenSame
<1>14. KeyFrom(c, k, v) /\ \A m \in Modules : k # PortsOf[m]
  BY <1>11, AboutKeyFrom
<1>15. P[c] # 0
  BY CentralsRun DEF Good
<1>16. \A n \in Endpoint : n # c => D1[n] = D2[n]
  BY <1>8
<1>17. Writes(D2, P, W, c, k, v, D1, W1)
  BY <1>11, <1>12, <1>13, <1>14, <1>15, <1>16 DEF Writes
<1>18. \E at1 : Good(D1, I, P, W1, stops, at1, mk)
  BY <1>10, <1>17, WriteStep
<1>19. DOMAIN D1[c].ep = DOMAIN d.ep
  BY <1>12 DEF IsWritten
<1>24. e \in DOMAIN d.ep
  BY <1>21 DEF IsKnown
<1>20. QED
  BY <1>1, <1>6, <1>18, <1>19, <1>24

LEMMA OnMachineConnectionKept ==
    ASSUME Kept, NEW c \in Endpoint, NEW e \in Endpoint, OnMachineConnection(c, e)
    PROVE  Kept' /\ e \in DOMAIN db'[c].ep
<1>1. PICK at, mk : Good(db, inbox, pid, written, stops, at, mk)
  BY DEF Kept
<1>2. PICK d : d = GetOrAddEndpoint(c, db[c], e, 0)
  OBVIOUS
<1>3. /\ IsCentral(c) /\ IsCentral(e) /\ e # c
      /\ inbox' = inbox /\ pid' = pid /\ stops' = stops
  BY DEF OnMachineConnection
<1>4. IF c[1] = Prime
      THEN db' = [db EXCEPT ![c] = Recorded(c, d, e)] /\ Record(c, d, e)
      ELSE db' = [db EXCEPT ![c] = [d EXCEPT !.event = TRUE]] /\ written' = written
  BY <1>2 DEF OnMachineConnection
<1>5. Total(db) /\ Total(written)
  BY <1>1, Totals
<1>6. CASE c[1] = Prime
  <2>1. PICK v : v = <<stops, d.ep[c].recv + 1>>
    OBVIOUS
  <2>2. written' = [written EXCEPT ![c] = Append(@, [key |-> EntryAbout[e], val |-> v])]
    BY <1>4, <1>6, <2>1 DEF Record
  <2>3. PICK D1, W1 : D1 = db' /\ W1 = written'
    OBVIOUS
  <2>4. Total(D1) /\ D1[c] = Recorded(c, d, e) /\ \A n \in Endpoint : n # c => D1[n] = db[n]
    BY <1>4, <1>5, <1>6, <2>3 DEF Total
  <2>5. /\ Total(W1) /\ W1[c] = Append(written[c], [key |-> EntryAbout[e], val |-> v])
        /\ \A n \in Endpoint : n # c => W1[n] = written[n]
    BY <1>5, <2>2, <2>3 DEF Total
  <2>6. Meeting(db, pid, written, c, e, 0, d, D1, W1)
    BY <1>2, <1>3, <1>6, <2>1, <2>4, <2>5 DEF Meeting, Centrals
  <2>7. (\E at1 : Good(D1, inbox, pid, W1, stops, at1, mk)) /\ DOMAIN D1[c].ep = DOMAIN d.ep /\ e \in DOMAIN d.ep
    BY <1>1, <2>6, MetAndRecorded
  <2>8. QED
    BY <1>3, <2>3, <2>7 DEF Kept
<1>7. CASE c[1] # Prime
  <2>1. PICK d2 : d2 = db[c]
    OBVIOUS
  <2>2. IsDb(d2)
    BY <1>1, <2>1, ModuleFacts
  <2>3. PICK p \in Nat : p = 0
    OBVIOUS
  <2>4. IsKnown(d, c, d2, e, p)
    BY <1>2, <2>1, <2>2, <2>3, GetOrAddIs
  <2>5. IsDb(d)
    BY <2>4 DEF IsKnown
  <2>6. PICK d1 : d1 = [d EXCEPT !.event = TRUE]
    OBVIOUS
  <2>7. SameBut(d1, d)
    BY <2>5, <2>6, EventIs DEF SameBut
  <2>8. IsAdded(d1, c, d2, e, p) /\ e \in DOMAIN d.ep
    BY ONLY <2>3, <2>4, <2>7, AddedIs
  <2>9. PICK D1 : D1 = db'
    OBVIOUS
  <2>10. Total(D1) /\ D1[c] = d1 /\ \A n \in Endpoint : n # c => D1[n] = db[n]
    BY <1>4, <1>5, <1>7, <2>6, <2>9 DEF Total
  <2>11. ~Local(c, e)
    BY <1>3, Places
  <2>12. Meets(db, pid, c, e, p, D1)
    BY <1>3, <2>1, <2>8, <2>10, <2>11 DEF Meets
  <2>13. Good(D1, inbox, pid, written, stops, at, mk)
    BY <1>1, <2>12, AddKeeps
  <2>14. D1[c].ep = d.ep
    BY <2>7, <2>10 DEF SameBut
  <2>15. QED
    BY <1>3, <1>4, <1>7, <2>8, <2>9, <2>13, <2>14 DEF Kept
<1>8. QED
  BY <1>6, <1>7

LEMMA CheckpointMessageIs ==
    ASSUME Starts, NEW c \in Endpoint, NEW d, IsDb(d), c \in DOMAIN d.ep, NEW M, M \subseteq Modules,
           NEW m, m = CheckpointMessage(c, d, M)
    PROVE  m \in Message /\ m.type = "checkpoint" /\ m.type # "update"
<1> DEFINE wm(e, s) == [end |-> e, seq |-> s, id |-> NullID]
           g == [x \in M |-> wm(x, start[x].seq)]
           T == {g[x] : x \in M}
<1>1. d.ep[c].recv \in Nat
  BY RecordIs
<1>2. \A x \in M : start[x].seq \in Nat /\ x \in Endpoint
  BY DEF Starts, StartType, Modules
<1>3. \A e \in Endpoint, s \in Nat : wm(e, s) \in MarkType
  BY DEF MarkType
<1>4. g \in [M -> MarkType]
  BY <1>2, <1>3
<1>5. IsFiniteSet(M)
  BY MnemosynthAssumption, FS_Subset DEF Modules
<1>6. {wm(x, start[x].seq) : x \in M} = T
  OBVIOUS
<1>7. wm(c, d.ep[c].recv) \in MarkType
  BY <1>1, <1>3
<1>8. m = [type |-> "checkpoint", id |-> d.ep[c].recv, wm |-> <<wm(c, d.ep[c].recv)>> \o SetToSeq(T)]
  BY <1>6 DEF CheckpointMessage
<1> HIDE DEF g, wm
<1>9. IsFiniteSet(T) /\ T \subseteq MarkType
  BY <1>4, <1>5, FiniteImage
<1>10. PICK X : X = T
  OBVIOUS
<1> HIDE DEF T
<1>11. PICK x : x = SetToSeq(X)
  OBVIOUS
<1>12. x \in Seq(X) /\ X \subseteq MarkType
  BY <1>9, <1>10, <1>11, SetToSeqIs
<1>13. x \in Seq(MarkType)
  BY <1>12, SeqMonotonic
<1>14. PICK u : u = wm(c, d.ep[c].recv)
  OBVIOUS
<1>15. PICK y : y = <<u>> \o x
  OBVIOUS
<1>16. <<u>> \in Seq(MarkType)
  BY <1>7, <1>14
<1>17. y \in Seq(MarkType)
  BY <1>13, <1>15, <1>16, ConcatProperties
<1>18. m = [type |-> "checkpoint", id |-> d.ep[c].recv, wm |-> y]
  BY <1>8, <1>10, <1>11, <1>14, <1>15
<1>19. m \in CheckpointType /\ m.type = "checkpoint"
  BY <1>1, <1>17, <1>18 DEF CheckpointType, Watermarks, MarkType
<1>20. m \in Message
  BY <1>19 DEF Message, CheckpointType
<1>21. QED
  BY <1>19, <1>20

LEMMA MsgOnModuleStartKept ==
    ASSUME Kept, Starts, NEW c \in Endpoint, NEW m \in Modules, MsgOnModuleStart(c, m)
    PROVE  Kept' /\ m \in DOMAIN db'[c].ep
<1>1. PICK at, mk : Good(db, inbox, pid, written, stops, at, mk)
  BY DEF Kept
<1>2. PICK d : d = GetOrAddEndpoint(c, db[c], m, pid[m])
  OBVIOUS
<1>3. PICK M : M = {o \in Modules : Local(c, o) /\ start[o].state # "stopped"}
  OBVIOUS
<1>4. PICK msg : msg = CheckpointMessage(c, Recorded(c, d, m), M)
  OBVIOUS
<1>5. /\ IsCentral(c) /\ Local(c, m) /\ start[m].state = "told" /\ pid' = pid /\ stops' = stops
      /\ db' = [db EXCEPT ![c] = Recorded(c, d, m)] /\ Record(c, d, m)
  BY <1>2, Zenon DEF MsgOnModuleStart
<1>6. inbox' = [inbox EXCEPT ![c] = Append(@, msg)] \/ inbox' = inbox
  BY <1>2, <1>3, <1>4 DEF MsgOnModuleStart
<1>7. PICK v : v = <<stops, d.ep[c].recv + 1>>
  OBVIOUS
<1>8. written' = [written EXCEPT ![c] = Append(@, [key |-> EntryAbout[m], val |-> v])]
  BY <1>5, <1>7 DEF Record
<1>9. Total(db) /\ Total(written) /\ Total(inbox)
  BY <1>1, Totals
<1>10. PICK D1, W1, I1 : D1 = db' /\ W1 = written' /\ I1 = inbox'
  OBVIOUS
<1>11. Total(D1) /\ D1[c] = Recorded(c, d, m) /\ \A n \in Endpoint : n # c => D1[n] = db[n]
  BY <1>5, <1>9, <1>10 DEF Total
<1>12. /\ Total(W1) /\ W1[c] = Append(written[c], [key |-> EntryAbout[m], val |-> v])
       /\ \A n \in Endpoint : n # c => W1[n] = written[n]
  BY <1>8, <1>9, <1>10 DEF Total
<1>13. PICK p : p = pid[m]
  OBVIOUS
<1>14. m \in Endpoint /\ p \in Nat /\ p # 0
  BY <1>1, <1>5, <1>13, ModuleFacts DEF Starts, Modules
<1>15. d = GetOrAddEndpoint(c, db[c], m, p)
  BY <1>2, <1>13
<1>16. Meeting(db, pid, written, c, m, p, d, D1, W1)
  BY <1>5, <1>7, <1>11, <1>12, <1>13, <1>14, <1>15 DEF Meeting
<1>17. /\ \E at1 : Good(D1, inbox, pid, W1, stops, at1, mk)
       /\ DOMAIN D1[c].ep = DOMAIN d.ep /\ m \in DOMAIN d.ep
  BY <1>1, <1>16, MetAndRecorded
<1>18. PICK at1 : Good(D1, inbox, pid, W1, stops, at1, mk)
  BY <1>17
<1>19. m \in DOMAIN db'[c].ep
  BY <1>10, <1>17
<1>20. CASE inbox' = inbox
  BY <1>5, <1>10, <1>18, <1>19, <1>20 DEF Kept
<1>21. CASE inbox' = [inbox EXCEPT ![c] = Append(@, msg)]
  <2>1. msg \in Message /\ msg.type # "update"
    BY <1>11, <1>18, ModuleFacts, <1>3, <1>4, CheckpointMessageIs DEF Numbered
  <2>2. PICK out : out = [n \in Endpoint |-> IF n = c THEN <<msg>> ELSE <<>>]
    OBVIOUS
  <2>3. \A n \in Endpoint : out[n] \in Seq(Message) /\ \A j \in 1..Len(out[n]) : out[n][j].type # "update"
    BY <2>1, <2>2
  <2>4. ASSUME NEW n \in Endpoint PROVE I1[n] = inbox[n] \o out[n]
    BY <1>1, ModuleFacts, <1>9, <1>10, <1>21, <2>2, <2>1, AppendIsConcat, ConcatEmptySeq DEF Total
  <2>5. Total(I1)
    BY <1>9, <1>10, <1>21 DEF Total
  <2>6. Appends(inbox, out, I1)
    BY <2>3, <2>4, <2>5 DEF Appends
  <2>7. \E mk1 : Good(D1, I1, pid, W1, stops, at1, mk1)
    BY <1>18, <2>6, AddsStep
  <2>8. QED
    BY <2>7, <1>5, <1>10, <1>19 DEF Kept
<1>22. QED
  BY <1>6, <1>20, <1>21

(* Exarch of c forgets m, whose process ended, and deletes its ports.      *)
Ending(D, P, W, c, m, d, D3, W3) ==
    /\ c \in Endpoint /\ IsCentral(c) /\ m \in Modules /\ Local(c, m) /\ P[m] = 0
    /\ d = RemoveEndpoint(D[c], m)
    /\ Total(D3) /\ D3[c] = WriteEntry(c, Recorded(c, d, m), PortsOf[m], Nil)
    /\ \A n \in Endpoint : n # c => D3[n] = D[n]
    /\ Total(W3) /\ \A n \in Endpoint : n # c => W3[n] = W[n]
    /\ W3[c] = Append(Append(W[c], [key |-> EntryAbout[m], val |-> <<stops, d.ep[c].recv + 1>>]),
                      [key |-> PortsOf[m], val |-> Nil])

LEMMA EndedAndRecorded ==
    ASSUME NEW D, NEW I, NEW P, NEW W, NEW at, NEW mk, Good(D, I, P, W, stops, at, mk),
           NEW c, NEW m, NEW d, NEW D3, NEW W3, Ending(D, P, W, c, m, d, D3, W3)
    PROVE  (\E at1 : Good(D3, I, P, W3, stops, at1, mk)) /\ DOMAIN D3[c].ep = DOMAIN D[c].ep \ {m}
<1> SUFFICES
      ASSUME c \in Endpoint, IsCentral(c), m \in Modules, Local(c, m), P[m] = 0,
             d = RemoveEndpoint(D[c], m),
             Total(D3), D3[c] = WriteEntry(c, Recorded(c, d, m), PortsOf[m], Nil),
             \A n \in Endpoint : n # c => D3[n] = D[n],
             Total(W3), \A n \in Endpoint : n # c => W3[n] = W[n],
             W3[c] = Append(Append(W[c], [key |-> EntryAbout[m], val |-> <<stops, d.ep[c].recv + 1>>]),
                            [key |-> PortsOf[m], val |-> Nil])
      PROVE  (\E at1 : Good(D3, I, P, W3, stops, at1, mk)) /\ DOMAIN D3[c].ep = DOMAIN D[c].ep \ {m}
  BY Zenon DEF Ending
<1>1. m \in Endpoint /\ c # m /\ ~IsCentral(m) /\ stops \in Nat /\ CentralOf(m) = c /\ P[c] # 0
  <2>1. m \in Endpoint /\ ~IsCentral(m)
    BY DEF Modules
  <2>2. stops \in Nat /\ Base(D, I, P, W, stops)
    BY DEF Good, Base
  <2>3. CentralOf(m) = c
    BY <2>1, Places
  <2>4. P[c] # 0
    BY <2>2, CentralsRun
  <2>5. c # m
    BY <2>1
  <2>6. QED
    BY <2>1, <2>2, <2>3, <2>4, <2>5
<1>2. IsDb(D[c]) /\ c \in DOMAIN D[c].ep
  BY ModuleFacts DEF Numbered
<1>3. IsRemoved(d, D[c], m)
  BY <1>2, RemoveEndpointIs
<1>4. IsDb(d) /\ DOMAIN d.ep = DOMAIN D[c].ep \ {m} /\ c \in DOMAIN d.ep
  BY <1>1, <1>2, <1>3 DEF IsRemoved
<1>5. PICK D1 : D1 = [n \in Endpoint |-> IF n = c THEN d ELSE D[n]]
  OBVIOUS
<1>6. Total(D1) /\ D1[c] = d /\ \A n \in Endpoint : n # c => D1[n] = D[n]
  BY <1>5 DEF Total
<1>7. Forgets(D, P, c, m, D1)
  BY <1>3, <1>6 DEF Forgets
<1>8. Good(D1, I, P, W, stops, at, mk)
  BY <1>7, RemoveKeeps
<1>9. PICK k, v : k = EntryAbout[m] /\ v = <<stops, d.ep[c].recv + 1>>
  OBVIOUS
<1>10. PICK d2 : d2 = Recorded(c, d, m)
  OBVIOUS
<1>11. k \in Key /\ v \in Val /\ IsWritten(d2, c, d, k, v)
  BY <1>1, <1>4, <1>9, <1>10, RecordedIs
<1>12. KeyFrom(c, k, v) /\ \A o \in Modules : k # PortsOf[o]
  BY <1>1, <1>9, AboutKeyFrom
<1>13. PICK x1, x2 : x1 = [key |-> k, val |-> v] /\ x2 = [key |-> PortsOf[m], val |-> Nil]
  OBVIOUS
<1>14. PICK W2 : W2 = [n \in Endpoint |-> IF n = c THEN Append(W[c], x1) ELSE W[n]]
  OBVIOUS
<1>15. Total(W2) /\ W2[c] = Append(W[c], x1) /\ \A n \in Endpoint : n # c => W2[n] = W[n]
  BY <1>14 DEF Total
<1>16. PICK D2 : D2 = [n \in Endpoint |-> IF n = c THEN d2 ELSE D[n]]
  OBVIOUS
<1>17. Total(D2) /\ D2[c] = d2 /\ \A n \in Endpoint : n # c => D2[n] = D1[n]
  BY <1>6, <1>16 DEF Total
<1>18. IsWritten(D2[c], c, D1[c], k, v)
  BY <1>6, <1>11, <1>17
<1>19. Writes(D1, P, W, c, k, v, D2, W2)
  BY <1>1, <1>11, <1>12, <1>13, <1>15, <1>17, <1>18 DEF Writes
<1>20. PICK at2 : Good(D2, I, P, W2, stops, at2, mk)
  BY <1>8, <1>19, WriteStep
<1>21. PICK k2, d3 : k2 = PortsOf[m] /\ d3 = D3[c]
  OBVIOUS
<1>22. k2 \in Key /\ Nil \in Val /\ KeyFrom(c, k2, Nil)
  BY <1>1, <1>21, MnemosynthAssumption DEF Val, KeyFrom
<1>23. \A o \in Modules : k2 = PortsOf[o] => P[o] = 0
  <2>1. ASSUME NEW o \in Modules, k2 = PortsOf[o] PROVE P[o] = 0
    <3>1. o = m
      BY <2>1, <1>21, MnemosynthAssumption
    <3>2. QED
      BY <3>1
  <2>2. QED
    BY <2>1
<1>24. IsDb(d2) /\ DOMAIN d2.ep = DOMAIN d.ep /\ c \in DOMAIN d2.ep
  BY <1>4, <1>11 DEF IsWritten
<1>25. d3 = WriteEntry(c, d2, k2, Nil)
  BY <1>10, <1>21
<1>26. IsWritten(d3, c, d2, k2, Nil)
  BY <1>22, <1>24, <1>25, WriteIs
<1>27. IsWritten(D3[c], c, D2[c], k2, Nil)
  BY <1>17, <1>21, <1>26
<1>28. /\ W3[c] = Append(W2[c], [key |-> k2, val |-> Nil])
       /\ \A n \in Endpoint : n # c => W3[n] = W2[n] /\ D3[n] = D2[n]
  BY <1>6, <1>9, <1>13, <1>15, <1>17, <1>21
<1>29. Writes(D2, P, W2, c, k2, Nil, D3, W3)
  BY <1>1, <1>22, <1>23, <1>27, <1>28 DEF Writes
<1>30. \E at1 : Good(D3, I, P, W3, stops, at1, mk)
  BY <1>20, <1>29, WriteStep
<1>31. DOMAIN D3[c].ep = DOMAIN D[c].ep \ {m}
  BY <1>4, <1>21, <1>24, <1>26 DEF IsWritten
<1>32. QED
  BY <1>30, <1>31

LEMMA AppendTwo ==
    ASSUME NEW S, NEW w \in Seq(S), NEW x, NEW y
    PROVE  w \o <<x, y>> = Append(Append(w, x), y)
<1>1. PICK T : T = S \cup {x, y}
  OBVIOUS
<1>2. w \in Seq(T) /\ x \in T /\ y \in T
  BY <1>1, SeqMonotonic
<1>3. /\ Append(w, x) \in Seq(T) /\ Append(w, x) = w \o <<x>>
  BY <1>2, AppendIsConcat, AppendProperties
<1>4. Append(Append(w, x), y) = (w \o <<x>>) \o <<y>>
  BY <1>2, <1>3, AppendIsConcat
<1>5. <<x>> \in Seq(T) /\ <<y>> \in Seq(T)
  BY <1>2
<1>6. (w \o <<x>>) \o <<y>> = w \o (<<x>> \o <<y>>)
  BY <1>2, <1>5, ConcatAssociative
<1>7. <<x>> \o <<y>> = <<x, y>>
  <2>1. PICK a, b, z : a = <<x>> /\ b = <<y>> /\ z = <<x, y>>
    OBVIOUS
  <2>2. a \in Seq(T) /\ b \in Seq(T) /\ z \in Seq(T) /\ Len(a) = 1 /\ Len(b) = 1 /\ Len(z) = 2
    BY <2>1, <1>2
  <2>3. a[1] = x /\ b[1] = y /\ z[1] = x /\ z[2] = y
    BY <2>1
  <2>4. /\ a \o b \in Seq(T) /\ Len(a \o b) = Len(a) + Len(b)
        /\ \A j \in 1..Len(a) + Len(b) : (a \o b)[j] = IF j <= Len(a) THEN a[j] ELSE b[j - Len(a)]
    BY ONLY <2>2, ConcatProperties
  <2>5. Len(a \o b) = 2 /\ (a \o b)[1] = z[1] /\ (a \o b)[2] = z[2]
    BY ONLY <2>2, <2>3, <2>4
  <2>6. \A j \in 1..Len(z) : (a \o b)[j] = z[j]
    <3>1. \A j \in 1..Len(z) : j = 1 \/ j = 2
      BY ONLY <2>2
    <3>2. QED
      BY ONLY <3>1, <2>5
  <2>7. a \o b = z
    <3>1. PICK u : u = a \o b
      OBVIOUS
    <3>2. u \in Seq(T) /\ z \in Seq(T) /\ Len(u) = Len(z) /\ \A j \in 1..Len(u) : u[j] = z[j]
      BY ONLY <3>1, <2>2, <2>4, <2>5, <2>6
    <3>3. u = z
      BY ONLY <3>2, SeqEqual
    <3>4. QED
      BY <3>1, <3>3
  <2>8. QED
    BY <2>1, <2>7
<1>8. QED
  BY <1>4, <1>6, <1>7

LEMMA LaunchStep ==
    ASSUME NEW D, NEW I, NEW P, NEW W, NEW at, NEW mk, Good(D, I, P, W, stops, at, mk),
           NEW m \in Modules, P[m] = 0, m \notin DOMAIN D[CentralOf(m)].ep,
           \A j \in 1..Len(I[CentralOf(m)]) : ~About(I[CentralOf(m)][j], m),
           NEW D1, D1 = [D EXCEPT ![m] = EmptyDb(m, stops + 1)],
           NEW I1, I1 = [I EXCEPT ![m] = <<>>],
           NEW P1, P1 = [P EXCEPT ![m] = stops + 1],
           NEW W1, W1 = [W EXCEPT ![m] = <<>>]
    PROVE  \E at1, mk1 : Good(D1, I1, P1, W1, stops, at1, mk1)
<1>1. /\ Total(D) /\ I \in [Endpoint -> Seq(Message)] /\ W \in [Endpoint -> Seq(WriteType)]
      /\ P \in [Endpoint -> Nat] /\ stops \in Nat
  BY DEF Good, Base
<1>2. at \in [Endpoint -> [Endpoint -> Nat]] /\ mk \in [Endpoint -> Seq(Nat)]
  BY DEF Good, Marked
<1>3. m \in Endpoint
  BY DEF Modules
<1>4. PICK mk1 : mk1 = [mk EXCEPT ![m] = <<>>]
  OBVIOUS
<1>5. PICK at1 : at1 = [n \in Endpoint |-> [e \in Endpoint |-> IF n = m \/ e = m THEN 0 ELSE at[n][e]]]
  OBVIOUS
<1>6. at1 \in [Endpoint -> [Endpoint -> Nat]]
  BY <1>2, <1>5
<1>7. \A n, e \in Endpoint : at1[n][e] = IF n = m \/ e = m THEN 0 ELSE at[n][e]
  BY <1>5
<1>8. P1 \in [Endpoint -> Nat] /\ P1[m] = stops + 1 /\ \A n \in Endpoint : n # m => P1[n] = P[n]
  BY <1>1, <1>3
<1>9. Total(D1) /\ D1[m] = EmptyDb(m, stops + 1) /\ \A n \in Endpoint : n # m => D1[n] = D[n]
  BY <1>1, <1>3 DEF Total
<1>10. \A X : <<>> \in Seq(X)
  OBVIOUS
<1>11. /\ I1 \in [Endpoint -> Seq(Message)] /\ I1[m] = <<>> /\ \A n \in Endpoint : n # m => I1[n] = I[n]
  BY <1>1, <1>10, <1>3
<1>12. /\ W1 \in [Endpoint -> Seq(WriteType)] /\ W1[m] = <<>> /\ \A n \in Endpoint : n # m => W1[n] = W[n]
  BY <1>1, <1>10, <1>3
<1>13. /\ mk1 \in [Endpoint -> Seq(Nat)] /\ mk1[m] = <<>> /\ \A n \in Endpoint : n # m => mk1[n] = mk[n]
  BY <1>2, <1>10, <1>3, <1>4
<1>14. Launching(D, I, P, W, stops, at, mk, m, D1, I1, P1, W1, at1, mk1)
  BY <1>6, <1>7, <1>8, <1>9, <1>11, <1>12, <1>13, Zenon DEF Launching
<1>15. Good(D1, I1, P1, W1, stops, at1, mk1)
  BY <1>14, LaunchKeeps
<1>16. QED
  BY <1>15

LEMMA MsgOnModuleStopKept ==
    ASSUME Windows = {}, Kept, NEW c \in Endpoint, NEW m \in Modules, MsgOnModuleStop(c, m)
    PROVE  Kept' /\ DOMAIN db'[c].ep = DOMAIN db[c].ep \ {m}
<1>1. PICK at, mk : Good(db, inbox, pid, written, stops, at, mk)
  BY DEF Kept
<1>2. PICK d, x1, x2 : /\ d = RemoveEndpoint(db[c], m)
                       /\ x1 = [key |-> EntryAbout[m], val |-> <<stops, d.ep[c].recv + 1>>]
                       /\ x2 = [key |-> PortsOf[m], val |-> Nil]
  OBVIOUS
<1>3. PICK D3 : D3 = [db EXCEPT ![c] = WriteEntry(c, Recorded(c, d, m), PortsOf[m], Nil)]
  OBVIOUS
<1>4. /\ IsCentral(c) /\ Local(c, m) /\ pid[m] = 0 /\ stops' = stops
      /\ \A i \in DOMAIN inbox[c] : inbox[c][i].type = "update" => inbox[c][i].from # m
  BY DEF MsgOnModuleStop
<1>5. \/ /\ \E p \in NewPids(m) : Launch(m, p, D3)
         /\ written' = [written EXCEPT ![c] = @ \o <<x1, x2>>, ![m] = <<>>]
      \/ /\ db' = D3
         /\ written' = [written EXCEPT ![c] = @ \o <<x1, x2>>]
         /\ UNCHANGED <<inbox, waiting, pid>>
  BY <1>2, <1>3 DEF MsgOnModuleStop
<1>6. /\ Total(db) /\ written \in [Endpoint -> Seq(WriteType)] /\ m \in Endpoint /\ c # m
  BY <1>1, <1>4 DEF Good, Base, Modules
<1>7. PICK W3 : W3 = [written EXCEPT ![c] = Append(Append(@, x1), x2)]
  OBVIOUS
<1>8. written[c] \o <<x1, x2>> = Append(Append(written[c], x1), x2)
  BY <1>6, AppendTwo
<1>9. Total(W3) /\ W3[c] = Append(Append(written[c], x1), x2) /\ \A n \in Endpoint : n # c => W3[n] = written[n]
  BY <1>6, <1>7 DEF Total
<1>10. /\ Total(D3) /\ D3[c] = WriteEntry(c, Recorded(c, d, m), PortsOf[m], Nil)
       /\ \A n \in Endpoint : n # c => D3[n] = db[n]
  BY <1>3, <1>6 DEF Total
<1>11. Ending(db, pid, written, c, m, d, D3, W3)
  BY <1>2, <1>4, <1>9, <1>10, Zenon DEF Ending
<1>12. (\E at1 : Good(D3, inbox, pid, W3, stops, at1, mk)) /\ DOMAIN D3[c].ep = DOMAIN db[c].ep \ {m}
  BY <1>1, <1>11, EndedAndRecorded
<1>13. PICK at3 : Good(D3, inbox, pid, W3, stops, at3, mk)
  BY <1>12
<1>14. CASE /\ db' = D3 /\ written' = [written EXCEPT ![c] = @ \o <<x1, x2>>]
            /\ UNCHANGED <<inbox, waiting, pid>>
  BY <1>7, <1>8, <1>14, <1>4, <1>13, <1>12 DEF Kept
<1>15. CASE /\ \E p \in NewPids(m) : Launch(m, p, D3)
            /\ written' = [written EXCEPT ![c] = @ \o <<x1, x2>>, ![m] = <<>>]
  <2>1. NewPids(m) = {stops + 1}
    BY DEF NewPids
  <2>2. Launch(m, stops + 1, D3)
    BY <2>1, <1>15
  <2>3. /\ pid' = [pid EXCEPT ![m] = stops + 1] /\ db' = [D3 EXCEPT ![m] = EmptyDb(m, stops + 1)]
        /\ inbox' = [inbox EXCEPT ![m] = <<>>]
    BY <2>2 DEF Launch
  <2>4. PICK D1, I1, P1, W1 : D1 = db' /\ I1 = inbox' /\ P1 = pid' /\ W1 = written'
    OBVIOUS
  <2>5. W1 = [W3 EXCEPT ![m] = <<>>]
    BY <2>4, <1>7, <1>8, <1>15
  <2>6. CentralOf(m) = c
    BY <1>4, <1>6, Places
  <2>7. m \notin DOMAIN D3[CentralOf(m)].ep
    BY <2>6, <1>12
  <2>8. \A j \in 1..Len(inbox[CentralOf(m)]) : ~About(inbox[CentralOf(m)][j], m)
    BY <1>1, ModuleFacts, <2>6, <1>4 DEF About
  <2>9. \E at1, mk1 : Good(D1, I1, P1, W1, stops, at1, mk1)
    <3>1. /\ D1 = [D3 EXCEPT ![m] = EmptyDb(m, stops + 1)] /\ I1 = [inbox EXCEPT ![m] = <<>>]
          /\ P1 = [pid EXCEPT ![m] = stops + 1] /\ pid[m] = 0
      BY <2>3, <2>4, <1>4
    <3>2. QED
      BY ONLY <3>1, <2>5, <2>7, <2>8, <1>13, m \in Modules, LaunchStep, Zenon
  <2>10. Kept'
    BY <2>4, <2>9, <1>4 DEF Kept
  <2>11. db'[c] = D3[c]
    BY <2>3, <1>6
  <2>12. QED
    BY <2>10, <2>11, <1>12
<1>16. QED
  BY <1>5, <1>14, <1>15

-----------------------------------------------------------------------------
(* What is known of who is known.                                          *)

Known(D, D1) == \A n \in Endpoint : DOMAIN D[n].ep \subseteq DOMAIN D1[n].ep

LEMMA KnownAt ==
    ASSUME NEW D, Total(D), NEW n \in Endpoint, NEW d, DOMAIN D[n].ep \subseteq DOMAIN d.ep,
           NEW D1, D1 = [D EXCEPT ![n] = d]
    PROVE  Known(D, D1)
<1>1. D1[n] = d /\ \A x \in Endpoint : x # n => D1[x] = D[x]
  BY DEF Total
<1>2. QED
  BY <1>1 DEF Known

LEMMA WriteKnows ==
    ASSUME Kept, NEW n \in Endpoint, NEW k \in Key, NEW delete \in BOOLEAN, Write(n, k, delete)
    PROVE  Known(db, db')
<1>1. PICK at, mk : Good(db, inbox, pid, written, stops, at, mk)
  BY DEF Kept
<1>2. PICK v : v = IF delete THEN Nil ELSE <<stops, db[n].ep[n].recv + 1>>
  OBVIOUS
<1>3. IsDb(db[n]) /\ n \in DOMAIN db[n].ep /\ stops \in Nat /\ Total(db)
  BY <1>1, ModuleFacts, Totals DEF Numbered
<1>4. v \in Val
  BY <1>3, RecordIs, <1>2 DEF Val
<1>5. PICK d : d = WriteEntry(n, db[n], k, v)
  OBVIOUS
<1>6. IsWritten(d, n, db[n], k, v)
  BY <1>3, <1>4, <1>5, WriteIs
<1>7. DOMAIN d.ep = DOMAIN db[n].ep
  BY <1>6 DEF IsWritten
<1>8. db' = [db EXCEPT ![n] = d]
  BY <1>2, <1>5, Zenon DEF Write
<1>9. QED
  BY <1>3, <1>7, <1>8, KnownAt

LEMMA OnDbModifiedKnows ==
    ASSUME Kept, NEW n \in Endpoint, OnDbModified(n)
    PROVE  Known(db, db')
<1>1. PICK at, mk : Good(db, inbox, pid, written, stops, at, mk)
  BY DEF Kept
<1>2. IsDb(db[n]) /\ Total(db)
  BY <1>1, ModuleFacts, Totals
<1>3. PICK d : d = AfterDelta(n, db[n])
  OBVIOUS
<1>4. DOMAIN d.ep = DOMAIN db[n].ep
  BY <1>2, <1>3, AfterDeltaIs DEF IsSpread
<1>5. db' = [db EXCEPT ![n] = d]
  BY <1>3 DEF OnDbModified
<1>6. QED
  BY <1>2, <1>4, <1>5, KnownAt

LEMMA OnUpdateKnows ==
    ASSUME Kept, NEW n \in Endpoint, OnUpdate(n)
    PROVE  Known(db, db')
<1>1. PICK at, mk : Good(db, inbox, pid, written, stops, at, mk)
  BY DEF Kept
<1>2. PICK m : m = Head(inbox[n])
  OBVIOUS
<1>3. PICK d0 : d0 = IncorporateDelta(n, db[n], m)
  OBVIOUS
<1>4. PICK after : after = IF IsCentral(n) THEN AfterDelta(n, d0) ELSE d0
  OBVIOUS
<1>5. inbox[n] # <<>> /\ m.type = "update"
  BY <1>2 DEF OnUpdate, Receives
<1>6. db' = [db EXCEPT ![n] = after]
  BY <1>2, <1>3, <1>4 DEF OnUpdate
<1>7. inbox[n] \in Seq(Message) /\ Len(inbox[n]) \in Nat /\ IsDb(db[n]) /\ Total(db)
  BY <1>1, ModuleFacts, Totals
<1>8. 1 <= Len(inbox[n]) /\ m = inbox[n][1]
  BY <1>2, <1>5, <1>7
<1>9. IsDb(d0)
  BY <1>1, <1>3, <1>5, <1>8, IncorporateDb
<1>10. DOMAIN db[n].ep \subseteq DOMAIN d0.ep
  <2>1. IsDb(d0) /\ d0.ep = d0.ep /\ d0.entry = d0.entry
    BY <1>9
  <2>2. PICK d1 : d1 = IF IsCentral(n) THEN [d0 EXCEPT !.event = TRUE] ELSE d0
    OBVIOUS
  <2>3. PICK d2 : d2 = [d0 EXCEPT !.event = TRUE]
    OBVIOUS
  <2>4. IsDb(d2) /\ d2.ep = d0.ep /\ d2.entry = d0.entry /\ d2.nextID = d0.nextID /\ d2.event = TRUE
    BY <2>3, <1>9, EventIs
  <2>5. IsDb(d1) /\ d1.ep = d0.ep /\ d1.entry = d0.entry /\ d1.nextID = d0.nextID
        /\ IF IsCentral(n) THEN d1.event = TRUE ELSE d1.event = d0.event
    BY <2>2, <2>3, <2>4, <1>9
  <2>6. Incorporates(d1, n, db[n], m)
    BY <2>5, <1>3, Zenon DEF Incorporates
  <2>7. \E old : IsTaken(d1, n, db[n], m, m.from, old)
    BY <2>6, <1>1, <1>5, <1>8, TakenIs
  <2>8. DOMAIN d1.ep = DOMAIN db[n].ep \cup {m.from}
    BY <2>7 DEF IsTaken
  <2>9. QED
    BY <2>5, <2>8
<1>11. DOMAIN after.ep = DOMAIN d0.ep
  BY <1>4, <1>9, AfterDeltaIs DEF IsSpread
<1>12. QED
  BY <1>6, <1>7, <1>10, <1>11, KnownAt

LEMMA AddingKnows ==
    ASSUME NEW c \in Endpoint, NEW d, IsDb(d), NEW e \in Endpoint, NEW p \in Nat,
           NEW d1, d1 = GetOrAddEndpoint(c, d, e, p)
    PROVE  IsDb(d1) /\ DOMAIN d1.ep = DOMAIN d.ep \cup {e}
<1>1. IsKnown(d1, c, d, e, p)
  BY GetOrAddIs
<1>2. QED
  BY <1>1 DEF IsKnown

LEMMA RecordingKnows ==
    ASSUME NEW c \in Endpoint, NEW d, IsDb(d), c \in DOMAIN d.ep, NEW e \in Endpoint, stops \in Nat,
           NEW d1, d1 = Recorded(c, d, e)
    PROVE  DOMAIN d1.ep = DOMAIN d.ep
<1>1. PICK k, v : k = EntryAbout[e] /\ v = <<stops, d.ep[c].recv + 1>>
  OBVIOUS
<1>2. IsWritten(Recorded(c, d, e), c, d, k, v)
  BY <1>1, RecordedIs
<1>3. QED
  BY <1>2 DEF IsWritten

LEMMA OnMachineConnectionKnows ==
    ASSUME Kept, NEW c \in Endpoint, NEW e \in Endpoint, OnMachineConnection(c, e)
    PROVE  Known(db, db')
<1>1. PICK at, mk : Good(db, inbox, pid, written, stops, at, mk)
  BY DEF Kept
<1>2. PICK d : d = GetOrAddEndpoint(c, db[c], e, 0)
  OBVIOUS
<1>3. IsDb(db[c]) /\ c \in DOMAIN db[c].ep /\ stops \in Nat /\ Total(db)
  BY <1>1, ModuleFacts, Totals DEF Numbered
<1>4. IsDb(d) /\ DOMAIN d.ep = DOMAIN db[c].ep \cup {e}
  BY <1>2, <1>3, AddingKnows
<1>5. \/ db' = [db EXCEPT ![c] = Recorded(c, d, e)]
      \/ db' = [db EXCEPT ![c] = [d EXCEPT !.event = TRUE]]
  BY <1>2 DEF OnMachineConnection
<1>6. DOMAIN Recorded(c, d, e).ep = DOMAIN d.ep
  BY <1>3, <1>4, RecordingKnows
<1>7. [d EXCEPT !.event = TRUE].ep = d.ep
  BY <1>4, EventIs
<1>8. PICK d1 : db' = [db EXCEPT ![c] = d1] /\ DOMAIN db[c].ep \subseteq DOMAIN d1.ep
  BY <1>4, <1>5, <1>6, <1>7
<1>9. PICK D1 : D1 = db'
  OBVIOUS
<1>10. D1 = [db EXCEPT ![c] = d1]
  BY <1>8, <1>9
<1>11. Known(db, D1)
  BY <1>3, <1>8, <1>10, KnownAt
<1>12. QED
  BY <1>9, <1>11

LEMMA MsgOnModuleStartKnows ==
    ASSUME Kept, NEW c \in Endpoint, NEW m \in Modules, MsgOnModuleStart(c, m)
    PROVE  Known(db, db')
<1>1. PICK at, mk : Good(db, inbox, pid, written, stops, at, mk)
  BY DEF Kept
<1>2. PICK d : d = GetOrAddEndpoint(c, db[c], m, pid[m])
  OBVIOUS
<1>3. IsDb(db[c]) /\ c \in DOMAIN db[c].ep /\ stops \in Nat /\ Total(db) /\ m \in Endpoint /\ pid[m] \in Nat
  BY <1>1, ModuleFacts, Totals DEF Numbered, Modules
<1>4. IsDb(d) /\ DOMAIN d.ep = DOMAIN db[c].ep \cup {m}
  BY <1>3, <1>2, AddingKnows
<1>5. PICK d1 : d1 = Recorded(c, d, m)
  OBVIOUS
<1>6. DOMAIN d1.ep = DOMAIN d.ep
  BY <1>3, <1>4, <1>5, RecordingKnows
<1>7. db' = [db EXCEPT ![c] = d1]
  BY <1>2, <1>5, Zenon DEF MsgOnModuleStart
<1>8. QED
  BY <1>3, <1>4, <1>6, <1>7, KnownAt

LEMMA StartsSame ==
    ASSUME Starts, Known(db, db'), start' = start, pid' = pid
    PROVE  Starts'
<1>1. \A m \in Modules : CentralOf(m) \in Endpoint
  BY MnemosynthAssumption DEF Modules
<1>2. QED
  BY <1>1 DEF Starts, Known

LEMMA ConnectsSame ==
    ASSUME Connects, Known(db, db'), connected' = connected
    PROVE  Connects'
BY DEF Connects, Known, Centrals

LEMMA KnownSame == db' = db => Known(db, db')
BY DEF Known

LEMMA OnMachineConnectionConnects ==
    ASSUME Kept, Connects, NEW c \in Endpoint, NEW e \in Endpoint, OnMachineConnection(c, e)
    PROVE  Connects'
<1>1. Known(db, db') /\ e \in DOMAIN db'[c].ep
  BY OnMachineConnectionKnows, OnMachineConnectionKept
<1>2. connected' = connected \cup {<<c, e>>} /\ c \in Centrals /\ e \in Centrals
  BY DEF OnMachineConnection, Centrals
<1>3. QED
  BY <1>1, <1>2 DEF Connects, Known, Centrals

LEMMA MsgOnModuleStartStarts ==
    ASSUME Kept, Starts, NEW c \in Endpoint, NEW m \in Modules, MsgOnModuleStart(c, m)
    PROVE  Starts'
<1>1. Known(db, db') /\ m \in DOMAIN db'[c].ep
  BY MsgOnModuleStartKnows, MsgOnModuleStartKept
<1>2. /\ start' = [start EXCEPT ![m].state = "running"] /\ pid' = pid /\ IsCentral(c) /\ Local(c, m)
  BY DEF MsgOnModuleStart
<1>3. m \in Endpoint /\ ~IsCentral(m) /\ CentralOf(m) = c
  BY <1>2, Places DEF Modules
<1>4. start \in [Endpoint -> StartType]
  BY DEF Starts
<1>5. /\ start' \in [Endpoint -> StartType] /\ start'[m].state = "running"
      /\ \A n \in Endpoint : n # m => start'[n] = start[n]
  BY <1>2, <1>3, <1>4 DEF StartType
<1>6. \A x \in Modules : x \in Endpoint /\ CentralOf(x) \in Endpoint
  BY MnemosynthAssumption DEF Modules
<1>7. QED
  BY <1>1, <1>2, <1>3, <1>5, <1>6 DEF Starts, Known

LEMMA OnModuleStartStarts ==
    ASSUME Kept, Starts, NEW m \in Endpoint, OnModuleStart(m)
    PROVE  Starts'
<1>1. PICK at, mk : Good(db, inbox, pid, written, stops, at, mk)
  BY DEF Kept
<1>2. PICK s : s = db[m].ep[m].recv
  OBVIOUS
<1>3. s \in Nat
  BY <1>1, <1>2, ModuleFacts, RecordIs DEF Numbered
<1>4. /\ start' = [start EXCEPT ![m] = [state |-> "told", seq |-> s]]
      /\ start[m].state = "launched" /\ pid[m] # 0 /\ pid' = pid /\ db' = db
  BY <1>2 DEF OnModuleStart
<1>5. start \in [Endpoint -> StartType]
  BY DEF Starts
<1>6. [state |-> "told", seq |-> s] \in StartType /\ [state |-> "told", seq |-> s].state = "told"
  BY <1>3 DEF StartType
<1>7. /\ start' \in [Endpoint -> StartType] /\ start'[m].state = "told"
      /\ \A n \in Endpoint : n # m => start'[n] = start[n]
  BY <1>4, <1>5, <1>6
<1>8. ~IsCentral(m)
  BY <1>4 DEF Starts
<1>9. \A x \in Modules : x \in Endpoint
  BY DEF Modules
<1>10. QED
  BY <1>4, <1>7, <1>8, <1>9 DEF Starts

LEMMA StopStarts ==
    ASSUME Kept, Starts, NEW m \in Endpoint, Stop(m)
    PROVE  Starts'
<1>1. /\ m \in Modules /\ pid' = [pid EXCEPT ![m] = 0] /\ start[m].state = "running"
      /\ start' = start /\ db' = db
  BY DEF Stop
<1>2. pid \in [Endpoint -> Nat]
  BY DEF Kept, Good, Base
<1>3. pid'[m] = 0 /\ \A n \in Endpoint : n # m => pid'[n] = pid[n]
  BY <1>1, <1>2
<1>4. \A x \in Modules : x \in Endpoint
  BY DEF Modules
<1>5. QED
  BY <1>1, <1>3, <1>4 DEF Starts

LEMMA MsgOnModuleStopDbs ==
    ASSUME Kept, NEW c \in Endpoint, NEW m \in Modules, MsgOnModuleStop(c, m)
    PROVE  \A n \in Endpoint : (n # c /\ n # m) => db'[n] = db[n]
<1>1. Total(db)
  BY Totals DEF Kept
<1>2. PICK d : d = WriteEntry(c, Recorded(c, RemoveEndpoint(db[c], m), m), PortsOf[m], Nil)
  OBVIOUS
<1>3. PICK D3 : D3 = [db EXCEPT ![c] = d]
  OBVIOUS
<1>4. db' = D3 \/ \E p \in NewPids(m) : Launch(m, p, D3)
  BY <1>2, <1>3 DEF MsgOnModuleStop
<1>5. db' = D3 \/ \E p : db' = [D3 EXCEPT ![m] = EmptyDb(m, p)]
  BY <1>4 DEF Launch
<1>6. QED
  BY <1>1, <1>3, <1>5 DEF Total

LEMMA MsgOnModuleStopConnects ==
    ASSUME Windows = {}, Kept, Connects, NEW c \in Endpoint, NEW m \in Modules, MsgOnModuleStop(c, m)
    PROVE  Connects'
<1>1. DOMAIN db'[c].ep = DOMAIN db[c].ep \ {m}
  BY MsgOnModuleStopKept
<1>2. \A n \in Endpoint : (n # c /\ n # m) => db'[n] = db[n]
  BY MsgOnModuleStopDbs
<1>3. connected' = connected
  BY DEF MsgOnModuleStop
<1>4. ~IsCentral(m)
  BY DEF Modules
<1>5. ASSUME NEW x \in Centrals, NEW e \in Centrals, <<x, e>> \in connected PROVE e \in DOMAIN db'[x].ep
  BY <1>4, <1>5, <1>1, <1>2 DEF Connects, Centrals
<1>6. QED
  BY <1>3, <1>5 DEF Connects

LEMMA MsgOnModuleStopStarts ==
    ASSUME Windows = {}, Kept, Starts, NEW c \in Endpoint, NEW m \in Modules, MsgOnModuleStop(c, m)
    PROVE  Starts'
<1>1. DOMAIN db'[c].ep = DOMAIN db[c].ep \ {m}
  BY MsgOnModuleStopKept
<1>2. \A n \in Endpoint : (n # c /\ n # m) => db'[n] = db[n]
  BY MsgOnModuleStopDbs
<1>3. start \in [Endpoint -> StartType] /\ stops \in Nat /\ pid \in [Endpoint -> Nat] /\ m \in Endpoint /\ ~IsCentral(m)
  BY DEF Starts, Kept, Good, Base, Modules
<1>4. pid[m] = 0 /\ stops + 1 # 0
  BY <1>3 DEF MsgOnModuleStop
<1>5. \/ /\ start' = [start EXCEPT ![m] = [state |-> "launched", seq |-> 0]] /\ pid' = [pid EXCEPT ![m] = stops + 1]
      \/ /\ start' = [start EXCEPT ![m].state = "stopped"] /\ pid' = pid
  <2>1. NewPids(m) = {stops + 1}
    BY DEF NewPids
  <2>2. \/ \E p \in NewPids(m) : \E d : Launch(m, p, d)
        \/ /\ start' = [start EXCEPT ![m].state = "stopped"] /\ pid' = pid
    BY DEF MsgOnModuleStop
  <2>3. QED
    BY <2>1, <2>2 DEF Launch
<1>6. /\ start' \in [Endpoint -> StartType] /\ \A n \in Endpoint : n # m => start'[n] = start[n] /\ pid'[n] = pid[n]
      /\ \/ start'[m].state = "launched" /\ pid'[m] # 0
         \/ start'[m].state = "stopped" /\ pid'[m] = 0
  BY <1>3, <1>4, <1>5 DEF StartType
<1>7. \A n \in Endpoint : IsCentral(n) => start'[n].state = "running"
  BY <1>3, <1>6 DEF Starts
<1>8. ASSUME NEW x \in Modules
      PROVE  /\ start'[x].state \in {"launched", "told"} => pid'[x] # 0
             /\ (start'[x].state = "running" /\ pid'[x] # 0) => x \in DOMAIN db'[CentralOf(x)].ep
             /\ start'[x].state = "stopped" => pid'[x] = 0
  BY <1>6, Places, <1>3, <1>1, <1>2 DEF Modules, Starts
<1>9. QED
  BY <1>6, <1>7, <1>8 DEF Starts

LEMMA WaitsAt ==
    ASSUME Waits, NEW n \in Endpoint, NEW S, S \subseteq CheckType, IsFiniteSet(S), \A c \in S : c.wm # <<>>,
           waiting' = [waiting EXCEPT ![n] = S]
    PROVE  Waits'
<1>1. PICK w, w1 : w = waiting /\ w1 = waiting'
  OBVIOUS
<1>2. /\ w = [x \in Endpoint |-> w[x]] /\ w1 = [w EXCEPT ![n] = S]
      /\ \A x \in Endpoint : w[x] \subseteq CheckType /\ IsFiniteSet(w[x]) /\ \A c \in w[x] : c.wm # <<>>
  BY <1>1 DEF Waits
<1>3. w1 = [x \in Endpoint |-> w1[x]] /\ w1[n] = S /\ \A x \in Endpoint : x # n => w1[x] = w[x]
  BY <1>2
<1>4. \A x \in Endpoint : w1[x] \subseteq CheckType /\ IsFiniteSet(w1[x]) /\ \A c \in w1[x] : c.wm # <<>>
  BY <1>2, <1>3
<1>5. QED
  BY <1>1, <1>3, <1>4 DEF Waits

LEMMA MsgOnModuleStopWaits ==
    ASSUME Waits, NEW c \in Endpoint, NEW m \in Modules, MsgOnModuleStop(c, m)
    PROVE  Waits'
<1>1. waiting' = waiting \/ waiting' = [waiting EXCEPT ![m] = {}]
  BY DEF MsgOnModuleStop, Launch
<1>2. CASE waiting' = waiting
  BY <1>2 DEF Waits
<1>3. CASE waiting' = [waiting EXCEPT ![m] = {}]
  BY FS_EmptySet, <1>3, WaitsAt DEF Modules
<1>4. QED
  BY <1>1, <1>2, <1>3

LEMMA CheckedWait ==
    ASSUME NEW d, IsDb(d), NEW S, S \subseteq CheckType, IsFiniteSet(S),
           NEW T, T = CheckedNow(d, S) \ Reached(d, S)
    PROVE  T \subseteq CheckType /\ IsFiniteSet(T) /\ \A c \in T : c.wm # <<>>
<1>1. /\ CheckedNow(d, S) \subseteq CheckType /\ IsFiniteSet(CheckedNow(d, S))
      /\ \A c1 \in CheckedNow(d, S) : c1 \in Reached(d, S) <=> c1.wm = <<>>
  BY CheckedIs
<1>2. T \subseteq CheckedNow(d, S)
  OBVIOUS
<1>3. QED
  BY <1>1, <1>2, FS_Subset

LEMMA OnUpdateWaits ==
    ASSUME Windows = {}, Kept, Waits, NEW n \in Endpoint, OnUpdate(n)
    PROVE  Waits'
<1>1. Kept'
  BY OnUpdateKept
<1>2. PICK after : /\ db' = [db EXCEPT ![n] = after]
                   /\ waiting' = [waiting EXCEPT ![n] = CheckedNow(after, @) \ Reached(after, @)]
  BY DEF OnUpdate
<1>3. Total(db)
  BY Totals DEF Kept
<1>4. IsDb(after)
  BY <1>1, ModuleFacts, <1>2, <1>3 DEF Kept, Total
<1>5. PICK S, T : S = waiting[n] /\ T = CheckedNow(after, S) \ Reached(after, S)
  OBVIOUS
<1>6. S \subseteq CheckType /\ IsFiniteSet(S)
  BY <1>5 DEF Waits
<1>7. T \subseteq CheckType /\ IsFiniteSet(T) /\ \A c \in T : c.wm # <<>>
  BY <1>4, <1>5, <1>6, CheckedWait
<1>8. waiting' = [waiting EXCEPT ![n] = T]
  BY <1>2, <1>5
<1>9. QED
  BY <1>7, <1>8, WaitsAt

LEMMA NotifyOnEndpointUpdateWaits ==
    ASSUME Kept, Waits, NEW n \in Endpoint, NotifyOnEndpointUpdate(n)
    PROVE  Waits'
<1>1. PICK at, mk : Good(db, inbox, pid, written, stops, at, mk)
  BY DEF Kept
<1>2. PICK msg, d : msg = Head(inbox[n]) /\ d = db[n]
  OBVIOUS
<1>3. PICK c : c = Asking(n, d, msg)
  OBVIOUS
<1>4. PICK S : S = {c}
  OBVIOUS
<1>5. PICK T : T = CheckedNow(d, S) \ Reached(d, S)
  OBVIOUS
<1>6. waiting' = [waiting EXCEPT ![n] = @ \cup (CheckedNow(d, S) \ Reached(d, S))]
  <2>1. waiting' = [waiting EXCEPT ![n] = @ \cup (CheckedNow(db[n], {Asking(n, db[n], Head(inbox[n]))})
                                                 \ Reached(db[n], {Asking(n, db[n], Head(inbox[n]))}))]
    BY Zenon DEF NotifyOnEndpointUpdate, Asking
  <2>2. QED
    BY <2>1, <1>2, <1>3, <1>4
<1>7. inbox[n] # <<>> /\ msg.type = "notify"
  <2>1. Receives(n, "notify")
    BY Zenon DEF NotifyOnEndpointUpdate
  <2>2. QED
    BY <2>1, <1>2 DEF Receives
<1>8. msg \in Message
  BY <1>1, ModuleFacts, <1>2, <1>7, TailIs
<1>9. IsDb(d)
  BY <1>1, <1>2, ModuleFacts
<1>10. c \in CheckType
  BY <1>3, <1>7, <1>8, <1>9, AskingIs
<1>11. S \subseteq CheckType /\ IsFiniteSet(S)
  BY <1>4, <1>10, FS_Singleton
<1>12. T \subseteq CheckType /\ IsFiniteSet(T) /\ \A x \in T : x.wm # <<>>
  BY <1>5, <1>9, <1>11, CheckedWait
<1>13. PICK U : U = waiting[n] \cup T
  OBVIOUS
<1>14. U \subseteq CheckType /\ IsFiniteSet(U) /\ \A x \in U : x.wm # <<>>
  BY <1>12, <1>13, FS_Union DEF Waits
<1>15. waiting' = [waiting EXCEPT ![n] = U]
  BY <1>5, <1>6, <1>13
<1>16. QED
  BY <1>14, <1>15, WaitsAt

LEMMA WaitsSame == ASSUME Waits, waiting' = waiting PROVE Waits'
BY DEF Waits

-----------------------------------------------------------------------------
(* The inductive invariant. *)

Inv == Kept /\ Waits /\ Starts /\ Connects

LEMMA InitInv == Init => Inv
<1>1. SUFFICES ASSUME Init PROVE Inv
  OBVIOUS
<1>2. Kept
  BY <1>1, InitKept
<1>3. /\ waiting = [n \in Endpoint |-> {}] /\ pid = [n \in Endpoint |-> 1] /\ connected = {}
      /\ start = [n \in Endpoint |-> [state |-> IF IsCentral(n) THEN "running" ELSE "launched", seq |-> 0]]
  BY <1>1 DEF Init
<1>4. Waits
  BY <1>3, FS_EmptySet DEF Waits
<1>5. Starts
  BY <1>3 DEF StartType, Modules, Starts
<1>6. Connects
  BY <1>3 DEF Connects
<1>7. QED
  BY <1>2, <1>4, <1>5, <1>6 DEF Inv

LEMMA WriteInv ==
    ASSUME Inv, NEW n \in Endpoint, NEW k \in Key, NEW delete \in BOOLEAN, Write(n, k, delete)
    PROVE  Inv'
<1>1. Kept /\ Waits /\ Starts /\ Connects
  BY DEF Inv
<1>2. Known(db, db') /\ Kept'
  BY <1>1, WriteKnows, WriteKept
<1>3. start' = start /\ pid' = pid /\ connected' = connected /\ waiting' = waiting
  BY DEF Write
<1>4. QED
  BY <1>1, <1>2, <1>3, StartsSame, ConnectsSame, WaitsSame DEF Inv

LEMMA OnDbModifiedInv ==
    ASSUME Windows = {}, Inv, NEW n \in Endpoint, OnDbModified(n)
    PROVE  Inv'
<1>1. Kept /\ Waits /\ Starts /\ Connects
  BY DEF Inv
<1>2. Known(db, db') /\ Kept'
  BY <1>1, OnDbModifiedKnows, OnDbModifiedKept
<1>3. start' = start /\ pid' = pid /\ connected' = connected /\ waiting' = waiting
  BY DEF OnDbModified
<1>4. QED
  BY <1>1, <1>2, <1>3, StartsSame, ConnectsSame, WaitsSame DEF Inv

LEMMA OnUpdateInv ==
    ASSUME Windows = {}, Inv, NEW n \in Endpoint, OnUpdate(n)
    PROVE  Inv'
<1>1. Kept /\ Waits /\ Starts /\ Connects
  BY DEF Inv
<1>2. Known(db, db') /\ Kept' /\ Waits'
  BY <1>1, OnUpdateKnows, OnUpdateKept, OnUpdateWaits
<1>3. start' = start /\ pid' = pid /\ connected' = connected
  BY DEF OnUpdate
<1>4. QED
  BY <1>1, <1>2, <1>3, StartsSame, ConnectsSame DEF Inv

LEMMA NotifyOnArcologyUpdateInv ==
    ASSUME Windows = {}, Inv, NEW n \in Endpoint, NotifyOnArcologyUpdate(n)
    PROVE  Inv'
<1>1. Kept /\ Waits /\ Starts /\ Connects
  BY DEF Inv
<1>2. start' = start /\ pid' = pid /\ connected' = connected /\ waiting' = waiting /\ db' = db
  BY DEF NotifyOnArcologyUpdate
<1>3. Known(db, db') /\ Kept'
  BY <1>1, <1>2, KnownSame, NotifyOnArcologyUpdateKept
<1>4. QED
  BY <1>1, <1>2, <1>3, StartsSame, ConnectsSame, WaitsSame DEF Inv

LEMMA NotifyOnEndpointUpdateInv ==
    ASSUME Windows = {}, Inv, NEW n \in Endpoint, NotifyOnEndpointUpdate(n)
    PROVE  Inv'
<1>1. Kept /\ Waits /\ Starts /\ Connects
  BY DEF Inv
<1>2. start' = start /\ pid' = pid /\ connected' = connected /\ db' = db
  BY Zenon DEF NotifyOnEndpointUpdate
<1>3. Known(db, db') /\ Kept' /\ Waits'
  BY <1>1, <1>2, KnownSame, NotifyOnEndpointUpdateKept, NotifyOnEndpointUpdateWaits
<1>4. QED
  BY <1>1, <1>2, <1>3, StartsSame, ConnectsSame DEF Inv

LEMMA OnEndpointUpdatedInv ==
    ASSUME Windows = {}, Inv, NEW n \in Endpoint, OnEndpointUpdated(n)
    PROVE  Inv'
<1>1. Kept /\ Waits /\ Starts /\ Connects
  BY DEF Inv
<1>2. start' = start /\ pid' = pid /\ connected' = connected /\ waiting' = waiting /\ db' = db
  BY DEF OnEndpointUpdated
<1>3. Known(db, db') /\ Kept'
  BY <1>1, <1>2, KnownSame, OnEndpointUpdatedKept
<1>4. QED
  BY <1>1, <1>2, <1>3, StartsSame, ConnectsSame, WaitsSame DEF Inv

LEMMA OnMachineConnectionInv ==
    ASSUME Inv, NEW c \in Endpoint, NEW e \in Endpoint, OnMachineConnection(c, e)
    PROVE  Inv'
<1>1. Kept /\ Waits /\ Starts /\ Connects
  BY DEF Inv
<1>2. Known(db, db') /\ Kept' /\ Connects'
  BY <1>1, OnMachineConnectionKnows, OnMachineConnectionKept, OnMachineConnectionConnects
<1>3. start' = start /\ pid' = pid /\ waiting' = waiting
  BY DEF OnMachineConnection
<1>4. QED
  BY <1>1, <1>2, <1>3, StartsSame, WaitsSame DEF Inv

LEMMA OnModuleStartInv ==
    ASSUME Inv, NEW m \in Endpoint, OnModuleStart(m)
    PROVE  Inv'
<1>1. Kept /\ Waits /\ Starts /\ Connects
  BY DEF Inv
<1>2. /\ db' = db /\ inbox' = inbox /\ pid' = pid /\ written' = written /\ stops' = stops
      /\ connected' = connected /\ waiting' = waiting
  BY DEF OnModuleStart
<1>3. Known(db, db') /\ Kept' /\ Starts'
  BY <1>1, <1>2, KnownSame, SameKept, OnModuleStartStarts
<1>4. QED
  BY <1>1, <1>2, <1>3, ConnectsSame, WaitsSame DEF Inv

LEMMA MsgOnModuleStartInv ==
    ASSUME Inv, NEW c \in Endpoint, NEW m \in Modules, MsgOnModuleStart(c, m)
    PROVE  Inv'
<1>1. Kept /\ Waits /\ Starts /\ Connects
  BY DEF Inv
<1>2. Known(db, db') /\ Kept' /\ Starts'
  BY <1>1, MsgOnModuleStartKnows, MsgOnModuleStartKept, MsgOnModuleStartStarts
<1>3. connected' = connected /\ waiting' = waiting
  BY DEF MsgOnModuleStart
<1>4. QED
  BY <1>1, <1>2, <1>3, ConnectsSame, WaitsSame DEF Inv

LEMMA StopInv ==
    ASSUME Inv, NEW m \in Endpoint, Stop(m)
    PROVE  Inv'
<1>1. Kept /\ Waits /\ Starts /\ Connects
  BY DEF Inv
<1>2. db' = db /\ connected' = connected /\ waiting' = waiting
  BY DEF Stop
<1>3. Known(db, db') /\ Kept' /\ Starts'
  BY <1>1, <1>2, KnownSame, StopKept, StopStarts
<1>4. QED
  BY <1>1, <1>2, <1>3, ConnectsSame, WaitsSame DEF Inv

LEMMA MsgOnModuleStopInv ==
    ASSUME Windows = {}, Inv, NEW c \in Endpoint, NEW m \in Modules, MsgOnModuleStop(c, m)
    PROVE  Inv'
<1>1. Kept /\ Waits /\ Starts /\ Connects
  BY DEF Inv
<1>2. Kept' /\ Starts' /\ Connects' /\ Waits'
  BY <1>1, MsgOnModuleStopKept, MsgOnModuleStopStarts, MsgOnModuleStopConnects, MsgOnModuleStopWaits
<1>3. QED
  BY <1>2 DEF Inv

LEMMA MessagesInv ==
    ASSUME Windows = {}, Inv, NEW n \in Endpoint, Reorder(n) \/ Lose(n)
    PROVE  Inv'
<1>1. Kept /\ Waits /\ Starts /\ Connects
  BY DEF Inv
<1>2. start' = start /\ pid' = pid /\ connected' = connected /\ waiting' = waiting /\ db' = db
  BY DEF Reorder, Lose
<1>3. Known(db, db') /\ Kept'
  BY <1>1, <1>2, KnownSame, ReorderKept, LoseKept
<1>4. QED
  BY <1>1, <1>2, <1>3, StartsSame, ConnectsSame, WaitsSame DEF Inv

LEMMA NextInv ==
    ASSUME Windows = {}, Inv, [Next]_vars
    PROVE  Inv'
<1>1. CASE UNCHANGED vars
  BY <1>1 DEF Inv, Kept, Waits, Starts, Connects, vars
<1>2. CASE Next
  <2>1. CASE \E n \in Endpoint, k \in Key, delete \in BOOLEAN : Write(n, k, delete)
    BY <2>1, WriteInv
  <2>2. ASSUME NEW n \in Endpoint, Engine(n) PROVE Inv'
    BY <2>2, OnDbModifiedInv, OnUpdateInv, NotifyOnArcologyUpdateInv, NotifyOnEndpointUpdateInv,
       OnEndpointUpdatedInv DEF Engine
  <2>3. ASSUME NEW c \in Endpoint, Exarch(c) PROVE Inv'
    BY <2>3, OnMachineConnectionInv, MsgOnModuleStartInv, MsgOnModuleStopInv DEF Exarch
  <2>4. ASSUME NEW n \in Endpoint, OnModuleStart(n) \/ Stop(n) PROVE Inv'
    BY <2>4, OnModuleStartInv, StopInv
  <2>5. ASSUME NEW n \in Endpoint, Reorder(n) \/ Lose(n) PROVE Inv'
    BY <2>5, MessagesInv
  <2>6. QED
    BY <1>2, <2>1, <2>2, <2>3, <2>4, <2>5 DEF Next
<1>3. QED
  BY <1>1, <1>2

(* The invariant of copies, messages and marks holds of every state.       *)
THEOREM MnemosynthInvariant ==
    ASSUME Windows = {}
    PROVE  Spec => []Inv
<1>1. Init => Inv
  BY InitInv
<1>2. Inv /\ [Next]_vars => Inv'
  BY NextInv
<1>3. QED
  BY <1>1, <1>2, PTL DEF Spec

-----------------------------------------------------------------------------
(* What the invariant says of reading. *)

LEMMA LastIs ==
    ASSUME NEW e \in Endpoint, NEW s \in Nat, NEW k, Wrote(e, s, k) # {}
    PROVE  \E i : IsLast(written[e], s, k, i) /\ LastOf(e, s, k) = written[e][i].val
<1>1. Wrote(e, s, k) \subseteq Nat /\ \A i \in Wrote(e, s, k) : i <= s
  BY DEF Wrote
<1>2. \E i \in Wrote(e, s, k) : \A j \in Wrote(e, s, k) : j <= i
  BY <1>1, GreatestNumber
<1>3. PICK i : i = CHOOSE x \in Wrote(e, s, k) : \A j \in Wrote(e, s, k) : j <= x
  OBVIOUS
<1>4. i \in Wrote(e, s, k) /\ \A j \in Wrote(e, s, k) : j <= i
  BY <1>2, <1>3
<1>5. LastOf(e, s, k) = written[e][i].val
  BY <1>3 DEF LastOf
<1>6. IsLast(written[e], s, k, i)
  BY <1>4 DEF IsLast, Wrote
<1>7. QED
  BY <1>5, <1>6

(* The process that runs is the one the module's own database is marked    *)
(* with.                                                                   *)
LEMMA FollowedIsLive ==
    ASSUME Windows = {}, NEW I, NEW W, NEW s, NEW at, NEW mk, Good(db, I, pid, W, s, at, mk),
           NEW n \in Endpoint, NEW e \in Endpoint, pid[n] # 0, pid[e] # 0, Followed(n, e)
    PROVE  Live(db, pid, n, e) /\ pid[e] = Proc(db, e)
<1>1. pid[e] = Proc(db, e)
  BY ModuleFacts
<1>2. IsCentral(n) \/ Local(n, e) \/ pid[e] = 1
  BY DEF Followed
<1>3. QED
  BY <1>1, <1>2 DEF Live

LEMMA KeptAssimilated ==
    ASSUME Windows = {}, Kept
    PROVE  AssimilatedUpTo
<1>1. PICK at, mk : Good(db, inbox, pid, written, stops, at, mk)
  BY DEF Kept
<1>2. SUFFICES ASSUME NEW n \in Endpoint, NEW e \in DOMAIN db[n].ep, pid[n] # 0, SameRun(n, e), Followed(n, e)
               PROVE  \E s \in db[n].ep[e].recv..Len(written[e]) :
                         \A k \in KeysOf(e) : Wrote(e, s, k) # {} => Read(db[n], k) = LastOf(e, s, k)
  BY DEF AssimilatedUpTo
<1>3. IsDb(db[n]) /\ e \in Endpoint
  BY <1>1, ModuleFacts DEF IsDb
<1>4. pid[e] # 0
  BY <1>2 DEF SameRun
<1>5. Live(db, pid, n, e) /\ pid[e] = Proc(db, e)
  BY <1>1, <1>2, <1>3, <1>4, FollowedIsLive
<1>6. IsNow(db[n].ep[e].pid, Proc(db, e))
  BY <1>2, <1>5 DEF SameRun, IsNow
<1>7. PICK a, w : a = at[n][e] /\ w = written[e]
  OBVIOUS
<1>8. Copy(e, db[n], a, w, Proc(db, e))
  BY <1>1, <1>3, <1>5, <1>7 DEF Good, Copying
<1>9. a \in Nat /\ db[n].ep[e].recv \in Nat /\ Len(w) \in Nat
  BY <1>1, <1>3, <1>7, PairFacts, ModuleFacts, <1>2, RecordIs
<1>10. a \in db[n].ep[e].recv..Len(w)
  BY <1>2, <1>6, <1>8, <1>9 DEF Copy
<1>11. ASSUME NEW k \in KeysOf(e), Wrote(e, a, k) # {} PROVE Read(db[n], k) = LastOf(e, a, k)
  <2>1. PICK i : IsLast(w, a, k, i) /\ LastOf(e, a, k) = w[i].val
    BY <1>3, <1>7, <1>9, <1>11, LastIs
  <2>2. i \in 1..a
    BY <2>1 DEF IsLast
  <2>3. db[n].entry[k].val = w[i].val
    BY <2>1, <2>2, <1>8, <1>11 DEF Copy
  <2>4. QED
    BY <2>1, <2>3 DEF Read
<1>12. QED
  BY <1>7, <1>10, <1>11

(* A module that has assimilated an endpoint's writes up to a sequence     *)
(* reads, of everything that endpoint writes, what its writer read at one  *)
(* moment at or after that write (dwSeqRecv, CMnemosynthDb.cpp).           *)
THEOREM MnemosynthAssimilated ==
    ASSUME Windows = {}
    PROVE  Spec => []AssimilatedUpTo
<1>1. Inv => AssimilatedUpTo
  BY KeptAssimilated DEF Inv
<1>2. Spec => []Inv
  BY MnemosynthInvariant
<1>3. QED
  BY <1>1, <1>2, PTL

-----------------------------------------------------------------------------
(* When nothing is under way. *)

(* n has the i-th write, of k, or it is a deletion n never needed.         *)
HasWrite(D, at, w, n, e, k, i) ==
    i <= at[n][e] \/ (at[n][e] = 0 /\ w[i].val = Nil /\ D[n].entry[k].val = Nil)

LEMMA IsLastBelow ==
    ASSUME NEW w, NEW b \in Nat, NEW a \in Nat, a <= b, NEW k, NEW i, IsLast(w, b, k, i), i <= a
    PROVE  IsLast(w, a, k, i)
BY DEF IsLast

(* What the source has, n has. *)
LEMMA QuietStep ==
    ASSUME NEW D, NEW I, NEW P, NEW W, NEW s, NEW at, NEW mk, Good(D, I, P, W, s, at, mk),
           NEW n \in Endpoint, NEW e \in Endpoint, n # e, Live(D, P, n, e), I[n] = <<>>,
           NEW p, p = Source(n, e), Linked(n, e, D[p]), ~D[p].event,
           NEW k \in KeysOf(e), NEW i, IsLast(W[e], Len(W[e]), k, i), i <= at[p][e]
    PROVE  HasWrite(D, at, W[e], n, e, k, i) /\ (Direct(n, e) => i <= at[n][e])
<1>1. p \in Endpoint /\ at[p][e] \in Nat /\ at[n][e] \in Nat /\ Len(W[e]) \in Nat
  BY PairFacts, ModuleFacts
<1>2. Sent(n, e, I[n], mk[n], D[n], at[n][e], W[e], Proc(D, e), D[p], at[p][e])
  BY DEF Good, Sending
<1>3. at[p][e] <= Len(W[e])
  BY <1>1, ModuleFacts, LiveIs
<1>4. IsLast(W[e], at[p][e], k, i)
  BY <1>1, <1>3, IsLastBelow
<1>5. i \in 1..at[p][e]
  BY <1>4 DEF IsLast
<1>6. Len(I[n]) = 0
  OBVIOUS
<1>7. Covered(n, e, I[n], mk[n], D[n], at[n][e], W[e], Proc(D, e), k, i, 0)
  BY <1>2, <1>4, <1>5, <1>6 DEF Sent, Pending
<1>8. QED
  BY <1>7 DEF Covered, Unheard, HasWrite

(* Everyone is linked to the module it hears from. *)
LEMMA QuietLinked ==
    ASSUME Windows = {}, Starts, Connects, Quiet, NEW at, NEW mk, Good(db, inbox, pid, written, stops, at, mk),
           NEW n \in Endpoint, NEW e \in Endpoint, n # e, pid[n] # 0, pid[e] # 0, NEW p, p = Source(n, e)
    PROVE  p \in Endpoint /\ inbox[n] = <<>> /\ ~db[p].event /\ Linked(n, e, db[p])
<1>1. /\ \A x \in Endpoint : pid[x] # 0 => inbox[x] = <<>> /\ ~db[x].event
      /\ \A m \in Modules : start[m].state \in {"running", "stopped"} /\ (pid[m] = 0 => start[m].state = "stopped")
      /\ \A c, f \in Centrals : c # f => <<c, f>> \in connected
  BY DEF Quiet
<1>2. \A c \in Endpoint : IsCentral(c) => pid[c] # 0
  BY CentralsRun DEF Good
<1>3. p \in Endpoint /\ CentralOf(n) \in Endpoint /\ CentralOf(e) \in Endpoint /\ IsCentral(CentralOf(n)) /\ IsCentral(CentralOf(e))
  BY Places
<1>4. pid[p] # 0
  BY <1>2, <1>3 DEF Source
<1>5. inbox[n] = <<>> /\ ~db[p].event
  BY <1>1, <1>3, <1>4
<1>6. \A c \in Endpoint : (IsCentral(c) /\ n \in DOMAIN db[c].ep /\ n # c /\ ~db[c].event) => ~db[c].ep[n].full
  BY DEF Good, Notified
<1>7. CASE ~IsCentral(n)
  BY <1>3, <1>7, <1>1, <1>5, <1>6 DEF Source, Modules, Starts, Linked
<1>8. CASE IsCentral(n) /\ ~Local(n, e)
  <2>1. p = CentralOf(e) /\ ~Local(n, p)
    BY <1>3, <1>8 DEF Source, Local, CentralOf
  <2>2. n # p
    BY <2>1 DEF Local
  <2>3. p \in Centrals /\ n \in Centrals
    BY <1>3, <1>8, <2>1 DEF Centrals
  <2>4. <<p, n>> \in connected
    BY <1>1, <2>2, <2>3
  <2>5. n \in DOMAIN db[p].ep
    BY <2>3, <2>4 DEF Connects
  <2>6. ~db[p].ep[n].full
    BY <1>3, <1>5, <1>6, <2>1, <2>2, <2>5
  <2>7. QED
    BY <1>3, <1>5, <2>5, <2>6 DEF Linked
<1>9. CASE IsCentral(n) /\ Local(n, e)
  BY <1>3, <1>5, <1>9 DEF Linked, Direct
<1>10. QED
  BY <1>7, <1>8, <1>9

(* So every module has of every other one what is last. *)
LEMMA QuietHas ==
    ASSUME Windows = {}, Starts, Connects, Quiet, NEW at, NEW mk, Good(db, inbox, pid, written, stops, at, mk),
           NEW n \in Endpoint, NEW e \in Endpoint, pid[n] # 0, pid[e] # 0, Live(db, pid, n, e),
           NEW k \in KeysOf(e), NEW i, IsLast(written[e], Len(written[e]), k, i)
    PROVE  HasWrite(db, at, written[e], n, e, k, i)
<1>1. \A c \in Endpoint : IsCentral(c) => pid[c] # 0
  BY CentralsRun DEF Good
<1>2. Len(written[e]) \in Nat /\ at[e][e] = Len(written[e]) /\ i \in 1..Len(written[e])
  BY ModuleFacts DEF IsLast
<1>3. i <= at[e][e] /\ HasWrite(db, at, written[e], e, e, k, i)
  BY <1>2 DEF HasWrite
<1>4. ASSUME NEW x \in Endpoint, x # e, pid[x] # 0, Live(db, pid, x, e), i <= at[Source(x, e)][e]
      PROVE  HasWrite(db, at, written[e], x, e, k, i) /\ (Direct(x, e) => i <= at[x][e])
  BY <1>4, QuietLinked, QuietStep
<1>5. PICK c : c = CentralOf(e)
  OBVIOUS
<1>6. c \in Endpoint /\ IsCentral(c) /\ Local(c, e) /\ pid[c] # 0
  BY <1>1, <1>5, Places
<1>7. i <= at[c][e]
  BY <1>3, <1>6, <1>4 DEF Live, Source, Direct
<1>8. ASSUME NEW x \in Endpoint, x # e, pid[x] # 0, Live(db, pid, x, e), Local(x, e) \/ IsCentral(x)
      PROVE  HasWrite(db, at, written[e], x, e, k, i)
  BY <1>5, <1>8, Places, <1>3, <1>7, <1>4 DEF Source
<1>9. CASE n = e
  BY <1>3, <1>9
<1>10. CASE n # e /\ (Local(n, e) \/ IsCentral(n))
  BY <1>8, <1>10
<1>11. CASE n # e /\ ~Local(n, e) /\ ~IsCentral(n)
  <2>1. PICK p : p = CentralOf(n)
    OBVIOUS
  <2>2. p \in Endpoint /\ IsCentral(p) /\ pid[p] # 0 /\ p = Source(n, e) /\ Live(db, pid, p, e) /\ ~Local(p, e)
    BY <2>1, <1>11, Places, <1>1 DEF Source, Local, Live
  <2>3. p # e
    BY <2>2 DEF Local
  <2>4. HasWrite(db, at, written[e], p, e, k, i)
    BY <2>2, <2>3, <1>8
  <2>5. CASE i <= at[p][e]
    BY <2>2, <2>5, <1>4, <1>11
  <2>6. CASE at[p][e] = 0 /\ written[e][i].val = Nil
    BY <2>2, <1>11, LiveIs, PairFacts, <2>6 DEF Live, Copy, HasWrite
  <2>7. QED
    BY <2>4, <2>5, <2>6 DEF HasWrite
<1>12. QED
  BY <1>9, <1>10, <1>11

LEMMA InvQuietAgree ==
    ASSUME Windows = {}, Inv
    PROVE  QuietAgree
<1>1. PICK at, mk : Good(db, inbox, pid, written, stops, at, mk)
  BY DEF Inv, Kept
<1>2. Starts /\ Connects
  BY DEF Inv
<1>3. SUFFICES ASSUME Quiet, NEW n \in Endpoint, NEW e \in Endpoint, pid[n] # 0, pid[e] # 0, Followed(n, e),
                      NEW k \in KeysOf(e), Wrote(e, Len(written[e]), k) # {}
               PROVE  Read(db[n], k) = LastOf(e, Len(written[e]), k)
  BY DEF QuietAgree, Agree
<1>4. Live(db, pid, n, e)
  BY <1>1, <1>3, FollowedIsLive
<1>5. Len(written[e]) \in Nat /\ at[n][e] \in Nat
  BY <1>1, ModuleFacts, PairFacts
<1>6. PICK i : /\ IsLast(written[e], Len(written[e]), k, i)
               /\ LastOf(e, Len(written[e]), k) = written[e][i].val
  BY <1>3, <1>5, LastIs
<1>7. HasWrite(db, at, written[e], n, e, k, i)
  BY <1>1, <1>2, <1>3, <1>4, <1>6, QuietHas
<1>8. CASE i <= at[n][e]
  <2>1. Copy(e, db[n], at[n][e], written[e], Proc(db, e)) /\ at[n][e] <= Len(written[e])
    BY <1>1, <1>4, LiveIs
  <2>2. IsLast(written[e], at[n][e], k, i)
    BY <2>1, <1>5, <1>6, <1>8, IsLastBelow
  <2>3. i \in 1..at[n][e]
    BY <2>2 DEF IsLast
  <2>4. db[n].entry[k].val = written[e][i].val
    BY <2>1, <2>2, <2>3 DEF Copy
  <2>5. QED
    BY <2>4, <1>6 DEF Read
<1>9. CASE written[e][i].val = Nil /\ db[n].entry[k].val = Nil
  BY <1>6, <1>9 DEF Read
<1>10. QED
  BY <1>7, <1>8, <1>9 DEF HasWrite

(* Once nothing is under way all modules read of each key what its writer  *)
(* wrote last (OnUpdate and OnDbModified, CMnemosynthEngine.cpp): no update *)
(* that is not resent was skipped.                                         *)
THEOREM MnemosynthQuietAgree ==
    ASSUME Windows = {}
    PROVE  Spec => []QuietAgree
<1>1. Inv => QuietAgree
  BY InvQuietAgree
<1>2. Spec => []Inv
  BY MnemosynthInvariant
<1>3. QED
  BY <1>1, <1>2, PTL
=============================================================================
