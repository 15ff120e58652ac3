---------------------------- MODULE RowScanProofs ----------------------------
(***************************************************************************)
(* That a scan returns every lasting row, in order, with data the row had, *)
(* for any set of keys, page size, and number of inserts, saves and        *)
(* compactions in between.                                                 *)
(***************************************************************************)
EXTENDS RowScan, FiniteSetTheorems, SequenceTheorems, WellFoundedInduction, TLAPS

(* The least key of S that is at or after k. *)
IsFirst(S, k, j) == j \in S /\ j >= k /\ \A i \in S : i >= k => j <= i
FirstFrom(S, k) == IF \E j \in S : j >= k THEN CHOOSE j \in S : IsFirst(S, k, j) ELSE NoKey

(* The keys that the iterator can come to in a source: an array that was   *)
(* empty when it began stays so for it.                                    *)
Reads(s) == IF scan.count[s] = 0 THEN {} ELSE Keys(Array(s))
ReadsAny == Reads("rows") \cup Reads("segs")

(* The data that the iterator has for a key. *)
DataFor(k) ==
    IF k \in Reads("rows") THEN Array("rows")[k]
    ELSE IF k \in Reads("segs") THEN scan.segs[k] ELSE Nil

(* The keys of the sources are those of the first rows at or after c, and  *)
(* their positions are those of the keys.                                  *)
Places(pos, key, c) ==
    \A s \in Source : /\ key[s] = FirstFrom(Reads(s), c)
                      /\ scan.count[s] # 0 => pos[s] = Position(Array(s), c)
StandsAt(c) == Places(scan.pos, scan.key, c)

AtRow == scan.pc \in {"emit", "advance", "check"}
CurrentKey == scan.key[scan.cur]
Last == out[Len(out)].key

CountsRight ==
    /\ scan.count["segs"] = Cardinality(Keys(scan.segs))
    /\ scan.count["rows"] # 0 => scan.count["rows"] = Cardinality(Keys(Array("rows")))

CursorRight ==
    AtRow => /\ scan.cur \in Source /\ CurrentKey # NoKey
             /\ scan.cur = Best(scan.key)
             /\ StandsAt(CurrentKey)

(* A page after the first starts at a key that the iterator will find. *)
RequestRight ==
    scan.pc = "select" =>
        /\ scan.from # NoKey
        /\ IF scan.more THEN out # <<>> /\ scan.from = Last /\ scan.from \in ReadsAny
           ELSE scan.from = scan.start /\ out = <<>>

(* The key that the scan has come to: every row before it has been         *)
(* returned, and no row from it on.                                        *)
Reached ==
    CASE scan.pc \in {"emit", "check"} -> CurrentKey
      [] scan.pc = "advance" -> CurrentKey + 1
      [] scan.pc = "select" -> IF scan.more THEN scan.from + 1 ELSE scan.start
      [] scan.pc = "between" -> Last + 1

Lasting(k) == held[k] # {} /\ Nil \notin held[k]

ReturnedSoFar ==
    scan.pc \in Calling \cup {"between"} =>
        /\ Began => \A k \in Key : k >= scan.start /\ k < Reached /\ Lasting(k) => Returned(k)
        /\ \A i \in 1..Len(out) : out[i].key < Reached

TypeInv ==
    /\ TypeOK
    /\ out \in Seq([key : Key, data : Value])
    /\ scan.pc \in Calling => scan.left # 0
    /\ scan.pc = "between" => out # <<>>

RInv ==
    /\ TypeInv
    /\ scan.pc # "idle" => \A k \in Key : Current(k) \in held[k]
    /\ scan.pc = "idle" => out = <<>>
    /\ scan.pc \in Calling =>
          /\ CountsRight /\ CursorRight /\ RequestRight
          /\ \A k \in Key : DataFor(k) \in held[k]
    /\ ReturnedSoFar /\ ScanOrdered /\ ScanTrue /\ ScanComplete

-----------------------------------------------------------------------------
(* Keys and their positions *)

LEMMA HasFirst ==
    ASSUME NEW S, S \subseteq Nat, NEW k \in Nat, NEW i \in S, i >= k
    PROVE  IsFirst(S, k, FirstFrom(S, k))
<1> DEFINE T == {j \in S : j >= k}
<1>1. T \subseteq Nat /\ T # {}
  OBVIOUS
<1>2. PICK x \in T : \A y \in T : ~(<<y, x>> \in OpToRel(<, Nat))
  BY <1>1, WFMin, NatLessThanWellFounded
<1>3. \A y \in T : ~(y < x)
  BY <1>1, <1>2 DEF OpToRel
<1>4. IsFirst(S, k, x)
  BY <1>1, <1>3 DEF IsFirst
<1>5. QED
  BY <1>4 DEF FirstFrom

LEMMA FirstIs ==
    ASSUME NEW S, S \subseteq Nat, NEW k \in Nat, NEW j, IsFirst(S, k, j)
    PROVE  FirstFrom(S, k) = j
<1>1. IsFirst(S, k, FirstFrom(S, k))
  BY HasFirst DEF IsFirst
<1>2. PICK f : f = FirstFrom(S, k)
  OBVIOUS
<1>3. f \in S /\ j \in S /\ f <= j /\ j <= f
  BY <1>1, <1>2 DEF IsFirst
<1>4. QED
  BY <1>2, <1>3

(* What FirstFrom says, for keys, which are not 0. *)
LEMMA FirstFromSays ==
    ASSUME NEW S, S \subseteq Key, NEW k \in Nat
    PROVE  /\ FirstFrom(S, k) = NoKey <=> \A j \in S : j < k
           /\ FirstFrom(S, k) # NoKey => IsFirst(S, k, FirstFrom(S, k))
<1>1. S \subseteq Nat \ {0}
  BY KeyAssumption
<1>2. CASE \E j \in S : j >= k
  <2>1. IsFirst(S, k, FirstFrom(S, k))
    BY <1>1, <1>2, HasFirst
  <2>2. PICK f : f = FirstFrom(S, k)
    OBVIOUS
  <2>3. f \in S /\ f \in Nat /\ f >= k /\ f # NoKey
    BY <1>1, <2>1, <2>2 DEF IsFirst, NoKey
  <2>4. ~\A j \in S : j < k
    BY <2>3
  <2>5. QED
    BY <2>1, <2>2, <2>3, <2>4
<1>3. CASE ~\E j \in S : j >= k
  <2>1. FirstFrom(S, k) = NoKey
    BY <1>3 DEF FirstFrom
  <2>2. \A j \in S : j < k
    BY <1>1, <1>3
  <2>3. QED
    BY <2>1, <2>2
<1>4. QED
  BY <1>2, <1>3

(* Nothing between k and m: the first key from both is the same. *)
LEMMA FirstFromSame ==
    ASSUME NEW S, S \subseteq Key, NEW k \in Nat, NEW m \in Nat, k <= m,
           \A j \in S : j >= k => j >= m
    PROVE  FirstFrom(S, k) = FirstFrom(S, m)
<1>1. S \subseteq Nat
  BY KeyAssumption
<1>2. PICK f : f = FirstFrom(S, m)
  OBVIOUS
<1>3. CASE f = NoKey
  <2>1. \A j \in S : j < m
    BY <1>2, <1>3, FirstFromSays
  <2>2. \A j \in S : j < k
    BY <1>1, <2>1
  <2>3. QED
    BY <1>2, <1>3, <2>2, FirstFromSays
<1>4. CASE f # NoKey
  <2>1. IsFirst(S, m, f)
    BY <1>2, <1>4, FirstFromSays
  <2>2. IsFirst(S, k, f)
    BY <1>1, <2>1 DEF IsFirst
  <2>3. QED
    BY <1>1, <1>2, <2>2, FirstIs
<1>5. QED
  BY <1>3, <1>4

LEMMA KeysType ==
    ASSUME NEW a
    PROVE  /\ Keys(a) \subseteq Key /\ Keys(a) \subseteq Nat \ {0} /\ IsFiniteSet(Keys(a))
           /\ Cardinality(Keys(a)) \in Nat
           /\ \A k : Before(Keys(a), k) \subseteq Keys(a) /\ IsFiniteSet(Before(Keys(a), k))
           /\ \A k : Position(a, k) \in Nat /\ Position(a, k) <= Cardinality(Keys(a))
<1>1. Keys(a) \subseteq Key /\ Keys(a) \subseteq Nat \ {0} /\ IsFiniteSet(Keys(a))
  BY KeyAssumption, FS_Subset DEF Keys
<1>2. \A k : Before(Keys(a), k) \subseteq Keys(a)
  BY DEF Before
<1>3. QED
  BY <1>1, <1>2, FS_Subset, FS_CardinalityType DEF Position

(* Positions tell keys apart, and the position after a key is the next.    *)
LEMMA PositionsGrow ==
    ASSUME NEW a, NEW k \in Keys(a)
    PROVE  /\ Position(a, k + 1) = Position(a, k) + 1
           /\ \A j \in Keys(a) : k < j => Position(a, k) < Position(a, j)
           /\ Position(a, k) < Cardinality(Keys(a))
<1>1. /\ Keys(a) \subseteq Nat /\ IsFiniteSet(Keys(a)) /\ Cardinality(Keys(a)) \in Nat
      /\ \A j : IsFiniteSet(Before(Keys(a), j)) /\ Position(a, j) \in Nat
      /\ \A j : Position(a, j) <= Cardinality(Keys(a))
  BY KeysType
<1>2. Before(Keys(a), k + 1) = Before(Keys(a), k) \cup {k} /\ k \notin Before(Keys(a), k)
  BY <1>1 DEF Before
<1>3. Position(a, k + 1) = Position(a, k) + 1
  BY <1>1, <1>2, FS_AddElement DEF Position
<1>4. ASSUME NEW j \in Keys(a), k < j PROVE Position(a, k) < Position(a, j)
  <2>1. Before(Keys(a), k + 1) \subseteq Before(Keys(a), j)
    BY <1>1, <1>4 DEF Before
  <2>2. Position(a, k + 1) <= Position(a, j)
    BY <1>1, <2>1, FS_Subset DEF Position
  <2>3. QED
    BY <1>1, <1>3, <2>2
<1>5. Position(a, k) < Cardinality(Keys(a))
  BY <1>1, <1>3
<1>6. QED
  BY <1>3, <1>4, <1>5

LEMMA PositionSame ==
    ASSUME NEW a, NEW k \in Nat, NEW m \in Nat, k <= m, \A j \in Keys(a) : j >= k => j >= m
    PROVE  Position(a, k) = Position(a, m)
<1>1. Before(Keys(a), k) = Before(Keys(a), m)
  BY KeysType DEF Before
<1>2. QED
  BY <1>1 DEF Position

(* The key at a position that was looked up with k is the first from k.    *)
LEMMA KeyAtPosition ==
    ASSUME NEW a, NEW k \in Nat
    PROVE  /\ Position(a, k) < Cardinality(Keys(a)) <=> FirstFrom(Keys(a), k) # NoKey
           /\ FirstFrom(Keys(a), k) # NoKey => KeyAt(a, Position(a, k)) = FirstFrom(Keys(a), k)
<1> DEFINE f == FirstFrom(Keys(a), k)
<1>1. Keys(a) \subseteq Key /\ Keys(a) \subseteq Nat /\ IsFiniteSet(Keys(a))
  BY KeysType
<1>2. CASE f = NoKey
  <2>1. Before(Keys(a), k) = Keys(a)
    BY <1>1, <1>2, FirstFromSays DEF Before
  <2>2. Position(a, k) = Cardinality(Keys(a)) /\ Cardinality(Keys(a)) \in Nat
    BY <2>1, KeysType DEF Position
  <2>3. QED
    BY <1>2, <2>2
<1>3. CASE f # NoKey
  <2>1. IsFirst(Keys(a), k, f)
    BY <1>1, <1>3, FirstFromSays
  <2>2. f \in Keys(a) /\ f >= k /\ f \in Nat /\ \A i \in Keys(a) : i >= k => f <= i
    BY <1>1, <2>1 DEF IsFirst
  <2>3. Position(a, k) = Position(a, f)
    <3> HIDE DEF f
    <3>1. QED
      BY <1>1, <2>2, PositionSame
  <2>4. \A j \in Keys(a) : Position(a, j) = Position(a, f) => j = f
    <3> HIDE DEF f
    <3>1. ASSUME NEW j \in Keys(a), Position(a, j) = Position(a, f) PROVE j = f
      <4>1. ~(j < f) /\ ~(f < j)
        BY <2>2, <3>1, PositionsGrow, KeysType
      <4>2. QED
        BY <1>1, <2>2, <4>1
    <3>2. QED
      BY <3>1
  <2>5. KeyAt(a, Position(a, k)) = f
    <3> HIDE DEF f
    <3>1. QED
      BY <2>2, <2>3, <2>4 DEF KeyAt
  <2>6. QED
    BY <1>3, <2>2, <2>3, <2>5, PositionsGrow
<1>4. QED
  BY <1>2, <1>3

-----------------------------------------------------------------------------
(* The iterator's sources *)

LEMMA SourceType ==
    ASSUME TypeInv, NEW s \in Source
    PROVE  /\ Array(s) \in RowSet /\ scan.count[s] \in Nat /\ scan.pos[s] \in Nat
           /\ scan.key[s] \in Key \cup {NoKey}
           /\ Reads(s) \subseteq Key /\ Reads(s) \subseteq Nat \ {0} /\ Reads(s) \subseteq Keys(Array(s))
<1>1. /\ scan.count \in [Source -> Nat] /\ scan.pos \in [Source -> Nat]
      /\ scan.key \in [Source -> Key \cup {NoKey}]
      /\ scan.segs \in RowSet /\ scan.array \in RowSet /\ rows \in RowSet
  BY DEF TypeInv, TypeOK, Iterator
<1>2. QED
  BY <1>1, KeysType DEF Array, Reads

(* A source's keys are counted, and looked up by their positions. *)
LEMMA KeyOfIsFirst ==
    ASSUME TypeInv, CountsRight, NEW s \in Source, NEW k \in Nat, NEW pos \in Nat,
           scan.count[s] # 0 => pos = Position(Array(s), k)
    PROVE  KeyOf(s, pos) = FirstFrom(Reads(s), k)
<1>1. CASE scan.count[s] = 0
  <2>1. FirstFrom(Reads(s), k) = NoKey
    BY <1>1 DEF Reads, FirstFrom
  <2>2. QED
    BY <1>1, <2>1 DEF KeyOf
<1>2. CASE scan.count[s] # 0
  <2>1. scan.count[s] = Cardinality(Keys(Array(s))) /\ Reads(s) = Keys(Array(s))
    BY <1>2 DEF CountsRight, Reads, Array, Source
  <2>2. PICK a : a = Array(s)
    OBVIOUS
  <2>3. /\ pos < Cardinality(Keys(a)) <=> FirstFrom(Keys(a), k) # NoKey
        /\ FirstFrom(Keys(a), k) # NoKey => KeyAt(a, pos) = FirstFrom(Keys(a), k)
    BY <1>2, <2>2, KeyAtPosition
  <2>4. QED
    BY <2>1, <2>2, <2>3 DEF KeyOf
<1>3. QED
  BY <1>1, <1>2

LEMMA BestIs ==
    ASSUME NEW key \in [Source -> Nat]
    PROVE  /\ Best(key) = "none" <=> \A s \in Source : key[s] = NoKey
           /\ Best(key) # "none" =>
                 /\ Best(key) \in Source /\ key[Best(key)] # NoKey
                 /\ \A s \in Source : key[s] # NoKey => key[Best(key)] <= key[s]
                 /\ Best(key) = "segs" => key["rows"] # key["segs"]
           /\ Best(key) \in Source \cup {"none"}
<1>1. Source = {"rows", "segs"} /\ key["rows"] \in Nat /\ key["segs"] \in Nat
  BY DEF Source
<1>2. CASE key["rows"] = NoKey /\ key["segs"] = NoKey
  BY <1>1, <1>2 DEF Best
<1>3. CASE key["rows"] # NoKey /\ (key["segs"] = NoKey \/ key["rows"] <= key["segs"])
  <2>1. Best(key) = "rows"
    BY <1>1, <1>3 DEF Best
  <2>2. QED
    BY <1>1, <1>3, <2>1
<1>4. CASE key["segs"] # NoKey /\ (key["rows"] = NoKey \/ key["segs"] < key["rows"])
  <2>1. Best(key) = "segs"
    BY <1>1, <1>4 DEF Best
  <2>2. QED
    BY <1>1, <1>4, <2>1
<1>5. QED
  BY <1>1, <1>2, <1>3, <1>4

(* The keys from k on of several sources begin with the best of their first. *)
LEMMA BestIsFirst ==
    ASSUME NEW R \in [Source -> SUBSET Key], NEW k \in Nat,
           NEW key \in [Source -> Nat], Best(key) # "none", NEW c, c = key[Best(key)],
           \A s \in Source : key[s] = FirstFrom(R[s], k)
    PROVE  /\ Best(key) \in Source /\ c \in R[Best(key)] /\ c >= k /\ c \in Key
           /\ \A s \in Source : \A j \in R[s] : j >= k => j >= c
           /\ \A s \in Source : key[s] = FirstFrom(R[s], c)
<1>1. PICK b : b = Best(key)
  OBVIOUS
<1>2. c = key[b]
  BY <1>1
<1>3. b \in Source /\ c # NoKey /\ c \in Nat /\ \A s \in Source : key[s] # NoKey => c <= key[s]
  BY <1>1, <1>2, BestIs
<1>4. IsFirst(R[b], k, c)
  BY <1>2, <1>3, FirstFromSays
<1>5. c \in R[b] /\ c \in Key /\ c >= k
  BY <1>3, <1>4 DEF IsFirst
<1>6. ASSUME NEW s \in Source
      PROVE  \A j \in R[s] : j >= k => j >= c
  <2>1. PICK f : f = FirstFrom(R[s], k)
    OBVIOUS
  <2>2. key[s] = f /\ R[s] \subseteq Nat /\ R[s] \subseteq Key
    BY <2>1, KeyAssumption
  <2>3. CASE f = NoKey
    <3>1. \A j \in R[s] : j < k
      BY <2>1, <2>2, <2>3, FirstFromSays
    <3>2. QED
      BY <2>2, <3>1
  <2>4. CASE f # NoKey
    <3>1. IsFirst(R[s], k, f)
      BY <2>1, <2>2, <2>4, FirstFromSays
    <3>2. c <= f /\ f \in Nat
      BY <1>3, <2>2, <2>4
    <3>3. QED
      BY <1>3, <2>2, <3>1, <3>2 DEF IsFirst
  <2>5. QED
    BY <2>3, <2>4
<1>7. \A s \in Source : key[s] = FirstFrom(R[s], c)
  BY <1>3, <1>5, <1>6, FirstFromSame
<1>8. QED
  BY <1>1, <1>2, <1>3, <1>5, <1>6, <1>7

(* Sources that were looked up from k stand at the least of their keys. *)
LEMMA BestStands ==
    ASSUME TypeInv, CountsRight, NEW k \in Nat,
           NEW pos \in [Source -> Nat], NEW key \in [Source -> Nat],
           Best(key) # "none", NEW c, c = key[Best(key)],
           Places(pos, key, k)
    PROVE  /\ c \in ReadsAny /\ c >= k /\ c \in Key
           /\ \A j \in ReadsAny : j >= k => j >= c
           /\ Places(pos, key, c)
<1>1. PICK R : R = [s \in Source |-> Reads(s)]
  OBVIOUS
<1>2. R \in [Source -> SUBSET Key] /\ \A s \in Source : R[s] = Reads(s)
  BY <1>1, SourceType
<1>3. PICK b : b = Best(key)
  OBVIOUS
<1>4. c = key[b]
  BY <1>3
<1>5. /\ b \in Source /\ c \in R[b] /\ c >= k /\ c \in Key
      /\ \A s \in Source : \A j \in R[s] : j >= k => j >= c
      /\ \A s \in Source : key[s] = FirstFrom(R[s], c)
  BY <1>2, <1>3, <1>4, BestIsFirst DEF Places
<1>6. c \in ReadsAny /\ \A j \in ReadsAny : j >= k => j >= c
  BY <1>2, <1>5 DEF ReadsAny, Source
<1>7. ASSUME NEW s \in Source, scan.count[s] # 0 PROVE pos[s] = Position(Array(s), c)
  <2>1. Reads(s) = Keys(Array(s)) /\ pos[s] = Position(Array(s), k)
    BY <1>7 DEF Reads, Places
  <2>2. c \in Nat /\ k <= c
    BY <1>5, KeyAssumption
  <2>3. PICK a : a = Array(s)
    OBVIOUS
  <2>4. \A j \in Keys(a) : j >= k => j >= c
    BY <1>2, <1>5, <2>1, <2>3
  <2>5. QED
    BY <2>1, <2>2, <2>3, <2>4, PositionSame
<1>8. QED
  BY <1>2, <1>3, <1>4, <1>5, <1>6, <1>7 DEF Places

(* The iterator reads, at its current key, what it has for that key. *)
LEMMA ReadsCurrent ==
    ASSUME TypeInv, CountsRight, CursorRight, AtRow
    PROVE  /\ CurrentKey \in Key /\ CurrentKey \in Nat /\ CurrentKey \in ReadsAny
           /\ KeyAt(Array(scan.cur), scan.pos[scan.cur]) = CurrentKey
           /\ DataAt(scan.cur) = DataFor(CurrentKey)
<1>1. PICK c : c = CurrentKey
  OBVIOUS
<1>2. PICK s : s = scan.cur
  OBVIOUS
<1>3. /\ s \in Source /\ c # NoKey /\ c = scan.key[s] /\ s = Best(scan.key)
      /\ \A r \in Source : /\ scan.key[r] = FirstFrom(Reads(r), c)
                           /\ scan.count[r] # 0 => scan.pos[r] = Position(Array(r), c)
  <2>1. s \in Source /\ c # NoKey /\ c = scan.key[s] /\ s = Best(scan.key) /\ StandsAt(c)
    BY <1>1, <1>2 DEF CursorRight, CurrentKey
  <2>2. QED
    BY <2>1 DEF StandsAt, Places
<1>4. c \in Key /\ c \in Nat
  BY <1>3, SourceType, KeyAssumption
<1>5. IsFirst(Reads(s), c, c) /\ Reads(s) \subseteq Key
  BY <1>3, <1>4, FirstFromSays, SourceType
<1>6. c \in Reads(s)
  BY <1>5 DEF IsFirst
<1>7. scan.count[s] # 0 /\ Reads(s) = Keys(Array(s)) /\ scan.pos[s] = Position(Array(s), c)
  BY <1>3, <1>6 DEF Reads
<1>8. KeyAt(Array(s), scan.pos[s]) = c
  <2>1. FirstFrom(Keys(Array(s)), c) = c
    BY <1>3, <1>7
  <2>2. QED
    BY <1>3, <1>4, <1>7, <2>1, KeyAtPosition
<1>9. DataAt(s) = Array(s)[c]
  BY <1>8 DEF DataAt
<1>10. Array(s)[c] = DataFor(c)
  <2>1. CASE s = "rows"
    BY <1>6, <2>1 DEF DataFor
  <2>2. CASE s = "segs"
    <3>1. scan.key \in [Source -> Nat]
      <4>1. scan.key \in [Source -> Key \cup {NoKey}]
        BY DEF TypeInv, TypeOK, Iterator
      <4>2. Key \cup {NoKey} \subseteq Nat
        BY KeyAssumption DEF NoKey
      <4>3. QED
        BY <4>1, <4>2
    <3>2. scan.key["rows"] # c
      BY <1>3, <2>2, <3>1, BestIs
    <3>3. c \notin Reads("rows")
      <4>1. ASSUME c \in Reads("rows") PROVE IsFirst(Reads("rows"), c, c)
        BY <1>4, <4>1, SourceType, KeyAssumption DEF IsFirst
      <4>2. ASSUME c \in Reads("rows") PROVE FirstFrom(Reads("rows"), c) = c
        BY <1>4, <4>1, <4>2, FirstIs, SourceType DEF Source
      <4>3. QED
        BY <1>3, <3>2, <4>2 DEF Source
    <3>4. QED
      BY <1>6, <2>2, <3>3 DEF DataFor, Array
  <2>3. QED
    BY <1>3, <2>1, <2>2 DEF Source
<1>11. QED
  BY <1>1, <1>2, <1>3, <1>4, <1>6, <1>8, <1>9, <1>10 DEF ReadsAny, Source

-----------------------------------------------------------------------------
(* Steps that leave the iterator's place alone *)

LEMMA SameSources ==
    ASSUME rows' = rows, scan'.live = scan.live, scan'.array = scan.array, scan'.segs = scan.segs,
           scan'.count = scan.count
    PROVE  /\ \A s \in Source : Array(s)' = Array(s) /\ Reads(s)' = Reads(s)
           /\ ReadsAny' = ReadsAny
           /\ \A k \in Key : DataFor(k)' = DataFor(k)
           /\ CountsRight' <=> CountsRight
<1>1. \A s \in Source : Array(s)' = Array(s)
  BY DEF Array
<1>2. \A s \in Source : Reads(s)' = Reads(s)
  BY <1>1 DEF Reads
<1>3. QED
  BY <1>1, <1>2 DEF DataFor, CountsRight, Source, ReadsAny

(* Writers only add to what a row has had, and the keys that the iterator  *)
(* counted stay those of its arrays.                                       *)
LEMMA WritersKeep ==
    ASSUME RInv, TypeInv', out' = out,
           scan' = [scan EXCEPT !.live = scan'.live, !.array = scan'.array],
           \A k \in Key : held[k] \subseteq held'[k],
           scan.pc # "idle" => \A k \in Key : Current(k)' \in held'[k],
           scan.pc \in Calling =>
              /\ \A s \in Source : scan.count[s] # 0 => Keys(Array(s))' = Keys(Array(s))
              /\ \A k \in Key : DataFor(k)' \in held'[k]
    PROVE  RInv'
<1>1. /\ scan'.pc = scan.pc /\ scan'.from = scan.from /\ scan'.more = scan.more
      /\ scan'.nearest = scan.nearest /\ scan'.start = scan.start /\ scan'.pos = scan.pos
      /\ scan'.count = scan.count /\ scan'.key = scan.key /\ scan'.cur = scan.cur
      /\ scan'.segs = scan.segs
  BY DEF RInv, TypeInv, TypeOK, Iterator
<1>2. Reached' = Reached /\ AtRow' = AtRow /\ CurrentKey' = CurrentKey /\ Last' = Last
  BY <1>1 DEF Reached, AtRow, CurrentKey, Last
<1>3. ASSUME scan.pc \in Calling PROVE CountsRight' /\ CursorRight' /\ RequestRight'
  <2>1. \A s \in Source : Reads(s)' = Reads(s)
    BY <1>1, <1>3 DEF Reads
  <2>2. ReadsAny' = ReadsAny
    BY <2>1 DEF ReadsAny, Source
  <2>3. CountsRight /\ CursorRight /\ RequestRight
    BY <1>3 DEF RInv
  <2>4. CountsRight'
    BY <1>1, <1>3, <2>3 DEF CountsRight, Source
  <2>5. \A s \in Source : \A k : scan.count[s] # 0 => Position(Array(s), k)' = Position(Array(s), k)
    BY <1>3 DEF Position
  <2>6. CursorRight'
    BY <1>1, <1>2, <2>1, <2>3, <2>5 DEF CursorRight, StandsAt, Places
  <2>7. RequestRight'
    BY <1>1, <1>2, <2>2, <2>3 DEF RequestRight
  <2>8. QED
    BY <2>4, <2>6, <2>7
<1>4. ASSUME scan.pc # "idle"
      PROVE  (Began' => Began) /\ \A k \in Key : Lasting(k)' => Lasting(k)
  <2>1. scan.start \in Key \cup {NoKey} /\ \A k \in Key : held[k] # {}
    BY <1>4 DEF RInv, TypeInv, TypeOK, Iterator
  <2>2. QED
    BY <1>1, <2>1 DEF Began, Lasting
<1>5. ReturnedSoFar'
  <2>1. ASSUME scan.pc \in Calling \cup {"between"} PROVE scan.pc # "idle"
    BY <2>1 DEF Calling
  <2>2. QED
    BY <1>1, <1>2, <1>4, <2>1 DEF ReturnedSoFar, RInv, Returned
<1>6. ScanOrdered' /\ ScanTrue'
  BY DEF ScanOrdered, ScanTrue, RInv, TypeInv, TypeOK
<1>7. ScanComplete'
  BY <1>1, <1>4 DEF ScanComplete, RInv, Returned, Lasting
<1>8. (scan'.pc # "idle" => \A k \in Key : Current(k)' \in held'[k])
  BY <1>1
<1>9. (scan'.pc = "idle" => out' = <<>>)
  BY <1>1 DEF RInv
<1>10. QED
  BY <1>1, <1>3, <1>5, <1>6, <1>7, <1>8, <1>9 DEF RInv

LEMMA InsertKeeps ==
    ASSUME RInv, "shift" \notin Windows, NEW k \in Key, NEW d \in Datum, Insert(k, d)
    PROVE  RInv'
<1>1. /\ rows' = [rows EXCEPT ![k] = d] /\ held' = [held EXCEPT ![k] = @ \cup {d}]
      /\ writes' = writes + 1 /\ writes < MaxWrites /\ UNCHANGED <<segs, scan, out>>
      /\ HoldsLiveArray => rows[k] # NoRow
      /\ rows \in RowSet /\ held \in [Key -> SUBSET Datum] /\ writes \in Nat /\ d # NoRow
  BY CellAssumption DEF Insert, RInv, TypeInv, TypeOK, Datum
<1>2. TypeInv'
  <2>1. rows' \in RowSet /\ held' \in [Key -> SUBSET Datum] /\ writes' \in 0..MaxWrites
    BY <1>1, PageAssumption DEF RowSet
  <2>2. QED
    BY <1>1, <2>1 DEF RInv, TypeInv, TypeOK
<1>3. \A j \in Key : held[j] \subseteq held'[j] /\ d \in held'[k]
  BY <1>1
<1>4. \A j \in Key : rows'[j] = IF j = k THEN d ELSE rows[j]
  BY <1>1 DEF RowSet
<1>5. ASSUME scan.pc # "idle" PROVE \A j \in Key : Current(j)' \in held'[j]
  BY <1>1, <1>3, <1>4, <1>5 DEF RInv, Current
<1>6. ASSUME scan.pc \in Calling
      PROVE  /\ \A s \in Source : scan.count[s] # 0 => Keys(Array(s))' = Keys(Array(s))
             /\ \A j \in Key : DataFor(j)' \in held'[j]
  <2>1. \A s \in Source : Array(s)' = IF s # "segs" /\ scan.live THEN rows' ELSE Array(s)
    BY <1>1 DEF Array
  <2>2. ASSUME NEW s \in Source, scan.count[s] # 0 PROVE Keys(Array(s))' = Keys(Array(s))
    <3>1. CASE s = "segs" \/ ~scan.live
      BY <2>1, <3>1 DEF Keys
    <3>2. CASE s # "segs" /\ scan.live
      <4>1. HoldsLiveArray
        <5>1. s = "rows" /\ scan.count["rows"] \in Nat
          BY <3>2, SourceType DEF Source, RInv
        <5>2. QED
          BY <1>6, <2>2, <3>2, <5>1 DEF HoldsLiveArray
      <4>2. Array(s)' = rows' /\ Array(s) = rows
        BY <2>1, <3>2 DEF Array
      <4>3. QED
        BY <1>1, <1>4, <4>1, <4>2 DEF Keys
    <3>3. QED
      BY <3>1, <3>2
  <2>3. \A s \in Source : Reads(s)' = Reads(s)
    BY <1>1, <2>2 DEF Reads
  <2>4. ASSUME NEW j \in Key PROVE DataFor(j)' \in held'[j]
    <3>1. DataFor(j) \in held[j]
      BY <1>6 DEF RInv
    <3>2. CASE j \in Reads("rows")
      <4>1. DataFor(j)' = Array("rows")'[j] /\ DataFor(j) = Array("rows")[j]
        BY <2>3, <3>2 DEF DataFor, Source
      <4>2. Array("rows") = IF scan.live THEN rows ELSE scan.array
        BY DEF Array
      <4>3. QED
        BY <1>3, <1>4, <2>1, <3>1, <4>1, <4>2 DEF Source
    <3>3. CASE j \notin Reads("rows")
      <4>1. DataFor(j)' = DataFor(j)
        BY <1>1, <2>3, <3>3 DEF DataFor, Source
      <4>2. QED
        BY <1>3, <3>1, <4>1
    <3>4. QED
      BY <3>2, <3>3
  <2>5. QED
    BY <2>2, <2>4
<1>7. scan' = [scan EXCEPT !.live = scan'.live, !.array = scan'.array]
  BY <1>1 DEF RInv, TypeInv, TypeOK, Iterator
<1>8. QED
  BY <1>1, <1>2, <1>3, <1>5, <1>6, <1>7, WritersKeep

LEMMA SaveKeeps ==
    ASSUME RInv, Save
    PROVE  RInv'
<1>1. /\ segs' = [k \in Key |-> IF rows[k] # NoRow THEN rows[k] ELSE segs[k]]
      /\ rows' = NoRows
      /\ scan' = IF scan.pc \in Calling /\ scan.live
                 THEN [scan EXCEPT !.live = FALSE, !.array = rows] ELSE scan
      /\ UNCHANGED <<out, held, writes>>
      /\ rows \in RowSet /\ segs \in RowSet /\ scan \in Iterator
  BY DEF Save, RInv, TypeInv, TypeOK
<1>2. /\ scan' = [scan EXCEPT !.live = scan'.live, !.array = scan'.array]
      /\ scan' \in Iterator /\ scan'.pc = scan.pc /\ scan'.left = scan.left
  BY <1>1 DEF Iterator
<1>3. TypeInv'
  <2>1. rows' \in RowSet /\ segs' \in RowSet
    BY <1>1 DEF RowSet, NoRows
  <2>2. QED
    BY <1>1, <1>2, <2>1 DEF RInv, TypeInv, TypeOK
<1>4. \A k \in Key : Current(k)' = Current(k)
  BY <1>1 DEF Current, NoRows
<1>5. ASSUME scan.pc \in Calling
      PROVE  \A s \in Source : Array(s)' = Array(s) /\ Reads(s)' = Reads(s)
  BY <1>1, <1>5 DEF Array, Reads, Iterator
<1>6. ASSUME scan.pc \in Calling
      PROVE  /\ \A s \in Source : Keys(Array(s))' = Keys(Array(s))
             /\ \A k \in Key : DataFor(k)' = DataFor(k)
  <2>1. scan'.segs = scan.segs
    BY <1>2 DEF Iterator
  <2>2. QED
    BY <1>5, <1>6, <2>1 DEF Keys, DataFor, Source
<1>7. QED
  BY <1>1, <1>2, <1>3, <1>4, <1>6, WritersKeep DEF RInv

LEMMA CompactKeeps ==
    ASSUME RInv, Compact
    PROVE  RInv'
<1>1. /\ segs' = [k \in Key |-> IF segs[k] = Nil THEN NoRow ELSE segs[k]]
      /\ UNCHANGED <<rows, scan, out, held, writes>>
      /\ segs \in RowSet /\ scan \in Iterator
  BY DEF Compact, RInv, TypeInv, TypeOK
<1>2. TypeInv'
  <2>1. segs' \in RowSet
    BY <1>1 DEF RowSet
  <2>2. QED
    BY <1>1, <2>1 DEF RInv, TypeInv, TypeOK
<1>3. \A k \in Key : Current(k)' = Current(k)
  BY <1>1, CellAssumption DEF Current
<1>4. /\ \A s \in Source : Array(s)' = Array(s)
      /\ \A k \in Key : DataFor(k)' = DataFor(k)
  BY <1>1, SameSources
<1>5. \A s \in Source : Keys(Array(s))' = Keys(Array(s))
  BY <1>4 DEF Keys
<1>6. scan' = [scan EXCEPT !.live = scan'.live, !.array = scan'.array]
  BY <1>1 DEF Iterator
<1>7. QED
  BY <1>1, <1>2, <1>3, <1>4, <1>5, <1>6, WritersKeep DEF RInv

-----------------------------------------------------------------------------
(* Steps of the iterator *)

LEMMA SmallestIs ==
    ASSUME NEW S, S \subseteq Key, S # {}
    PROVE  Smallest(S) \in S /\ \A j \in S : Smallest(S) <= j
<1>1. S \subseteq Nat
  BY KeyAssumption
<1>2. PICK i : i \in S /\ i \in Nat
  BY <1>1
<1>3. PICK f : f = FirstFrom(S, 0)
  OBVIOUS
<1>4. f \in S /\ \A j \in S : f <= j
  <2>1. IsFirst(S, 0, f)
    <3>1. i >= 0
      BY <1>2
    <3>2. QED
      BY <1>1, <1>2, <1>3, <3>1, HasFirst
  <2>2. QED
    BY <1>1, <2>1 DEF IsFirst
<1>5. Before(S, f) = {}
  <2>1. \A j \in S : ~(j < f)
    BY <1>1, <1>4
  <2>2. QED
    BY <2>1 DEF Before
<1>6. PICK m : m = Smallest(S)
  OBVIOUS
<1>7. m \in S /\ Before(S, m) = {}
  BY <1>4, <1>5, <1>6 DEF Smallest
<1>8. \A j \in S : m <= j
  BY <1>1, <1>7 DEF Before
<1>9. QED
  BY <1>6, <1>7, <1>8

(* A new iterator reads the table as it is, and stands at its first row    *)
(* that is not nil unless it is sent to another.                           *)
LEMMA InitIteratorRight ==
    ASSUME TypeInv, NEW request \in Iterator, InitIterator(request), UNCHANGED <<rows, segs>>
    PROVE  \/ /\ request.from = NoKey /\ \A k \in Key : Current(k) = Nil
              /\ scan' = [request EXCEPT !.pc = "done"]
           \/ /\ scan' \in Iterator /\ scan'.left = PageSize
              /\ scan'.pc = IF request.from # NoKey THEN "select" ELSE "emit"
              /\ scan'.from = request.from /\ scan'.start = request.start
              /\ scan'.more = request.more /\ scan'.nearest = request.nearest
              /\ CountsRight' /\ CursorRight'
              /\ \A k \in Key : DataFor(k)' = Current(k)
              /\ ReadsAny' = Keys(rows) \cup Keys(segs)
              /\ scan'.pc = "emit" =>
                    CurrentKey' \in Key /\ \A k \in Key : k < CurrentKey' => Current(k) = Nil
<1> DEFINE live == {k \in Keys(rows) \cup Keys(segs) : Current(k) # Nil}
           m == Smallest(live)
           array == [s \in Source |-> IF s = "rows" THEN rows ELSE segs]
           pos == [s \in Source |-> IF live = {} THEN Cardinality(Keys(array[s]))
                                     ELSE Position(array[s], m)]
           count == [s \in Source |-> Cardinality(Keys(array[s]))]
           key == [s \in Source |->
                      IF pos[s] < count[s] THEN KeyAt(array[s], pos[s]) ELSE NoKey]
<1>1. live \subseteq Key
  BY KeysType
<1>2. \A k \in Key : Current(k) # Nil <=> k \in live
  BY DEF Keys, Current
<1>3. ASSUME request.from = NoKey, live = {}
      PROVE  /\ request.from = NoKey /\ \A k \in Key : Current(k) = Nil
             /\ scan' = [request EXCEPT !.pc = "done"]
  BY <1>2, <1>3 DEF InitIterator
<1>4. ASSUME ~(request.from = NoKey /\ live = {})
      PROVE  scan' = [request EXCEPT
                    !.pc = IF request.from # NoKey THEN "select" ELSE "emit",
                    !.left = PageSize, !.live = TRUE, !.array = NoRows, !.segs = segs,
                    !.pos = pos, !.count = count, !.key = key, !.cur = Best(key)]
  BY <1>4 DEF InitIterator
<1>5. /\ count \in [Source -> Nat]
      /\ pos \in [Source -> Nat]
      /\ \A s \in Source : /\ array[s] = IF s = "rows" THEN rows ELSE segs
                           /\ count[s] = Cardinality(Keys(array[s]))
                           /\ live # {} => pos[s] = Position(array[s], m)
  BY KeysType
<1>6. live # {} => m \in live /\ m \in Key /\ m \in Nat /\ \A j \in live : m <= j
  BY <1>1, SmallestIs, KeyAssumption
<1>7. ASSUME NEW s \in Source
      PROVE  /\ live = {} => key[s] = NoKey
             /\ live # {} => key[s] = FirstFrom(Keys(array[s]), m)
             /\ key[s] \in Key \cup {NoKey} /\ key[s] \in Nat
  <2>1. ASSUME live = {} PROVE key[s] = NoKey
    <3>1. pos[s] = count[s] /\ count[s] \in Nat
      BY <1>5, <2>1
    <3>2. QED
      BY <3>1
  <2>2. ASSUME live # {} PROVE key[s] = FirstFrom(Keys(array[s]), m)
    <3>1. PICK a : a = array[s]
      OBVIOUS
    <3>2. pos[s] = Position(a, m) /\ count[s] = Cardinality(Keys(a)) /\ m \in Nat
      BY <1>5, <1>6, <2>2, <3>1
    <3>3. key[s] = IF pos[s] < count[s] THEN KeyAt(a, pos[s]) ELSE NoKey
      BY <3>1
    <3> HIDE DEF key, pos, count, array, m
    <3>4. QED
      BY <3>1, <3>2, <3>3, KeyAtPosition
  <2>3. key[s] \in Key \cup {NoKey}
    <3>1. CASE live = {}
      BY <2>1, <3>1
    <3>2. CASE live # {}
      <4>1. PICK f : f = FirstFrom(Keys(array[s]), m)
        OBVIOUS
      <4>2. f = NoKey \/ IsFirst(Keys(array[s]), m, f)
        BY <1>6, <3>2, <4>1, KeysType, FirstFromSays
      <4>3. f \in Key \cup {NoKey}
        BY <4>2, KeysType DEF IsFirst
      <4> HIDE DEF key, m, array
      <4>4. QED
        BY <2>2, <3>2, <4>1, <4>3
    <3>3. QED
      BY <3>1, <3>2
  <2> HIDE DEF key
  <2>4. key[s] \in Nat
    <3>1. Key \cup {NoKey} \subseteq Nat
      BY KeyAssumption DEF NoKey
    <3>2. QED
      BY <2>3, <3>1
  <2>5. QED
    BY <2>1, <2>2, <2>3, <2>4
<1>8. key \in [Source -> Key \cup {NoKey}] /\ key \in [Source -> Nat]
  BY <1>7
<1>9. Best(key) \in Source \cup {"none"}
  BY <1>8, BestIs
<1> HIDE DEF key, pos, count, m
<1>10. ASSUME ~(request.from = NoKey /\ live = {})
       PROVE  /\ scan' \in Iterator /\ scan'.left = PageSize
              /\ scan'.pc = IF request.from # NoKey THEN "select" ELSE "emit"
              /\ scan'.from = request.from /\ scan'.start = request.start
              /\ scan'.more = request.more /\ scan'.nearest = request.nearest
              /\ scan'.count = count /\ scan'.pos = pos /\ scan'.key = key
              /\ scan'.cur = Best(key) /\ scan'.live /\ scan'.segs = segs
  <2>1. segs \in RowSet /\ NoRows \in RowSet /\ PageSize \in 0..PageSize
    BY PageAssumption DEF TypeInv, TypeOK, RowSet, NoRows
  <2>2. PICK r : r = [request EXCEPT
                    !.pc = IF request.from # NoKey THEN "select" ELSE "emit",
                    !.left = PageSize, !.live = TRUE, !.array = NoRows, !.segs = segs,
                    !.pos = pos, !.count = count, !.key = key, !.cur = Best(key)]
    OBVIOUS
  <2>3. /\ r \in Iterator /\ r.left = PageSize
        /\ r.pc = IF request.from # NoKey THEN "select" ELSE "emit"
        /\ r.from = request.from /\ r.start = request.start
        /\ r.more = request.more /\ r.nearest = request.nearest
        /\ r.count = count /\ r.pos = pos /\ r.key = key
        /\ r.cur = Best(key) /\ r.live /\ r.segs = segs
    <3> HIDE DEF live, array
    <3>1. QED
      BY <1>5, <1>8, <1>9, <2>1, <2>2 DEF Iterator, Calling
  <2>4. scan' = r
    BY <1>4, <1>10, <2>2
  <2>5. QED
    BY <2>3, <2>4
<1>11. ASSUME ~(request.from = NoKey /\ live = {})
       PROVE  \A s \in Source : Array(s)' = array[s] /\ Reads(s)' = Keys(array[s])
  <2>1. \A s \in Source : Array(s)' = array[s]
    BY <1>5, <1>10, <1>11 DEF Array, Source
  <2>2. \A s \in Source : count[s] = 0 <=> Keys(array[s]) = {}
    BY <1>5, KeysType, FS_EmptySet
  <2>3. QED
    BY <1>10, <1>11, <2>1, <2>2 DEF Reads
<1>12. ASSUME ~(request.from = NoKey /\ live = {})
       PROVE  /\ CountsRight'
              /\ \A k \in Key : DataFor(k)' = Current(k)
              /\ ReadsAny' = Keys(rows) \cup Keys(segs)
  <2>1. CountsRight'
    BY <1>5, <1>10, <1>11, <1>12 DEF CountsRight, Source, Array
  <2>2. ReadsAny' = Keys(rows) \cup Keys(segs)
    BY <1>5, <1>11, <1>12 DEF ReadsAny, Source
  <2>3. \A k \in Key : DataFor(k)' = Current(k)
    BY <1>5, <1>10, <1>11, <1>12 DEF DataFor, Current, Source, Keys
  <2>4. QED
    BY <2>1, <2>2, <2>3
<1>13. ASSUME live # {}, request.from = NoKey
       PROVE  /\ CursorRight' /\ CurrentKey' \in Key
              /\ \A k \in Key : k < CurrentKey' => Current(k) = Nil
  <2>1. PICK R : R = [s \in Source |-> Keys(array[s])]
    OBVIOUS
  <2>2. R \in [Source -> SUBSET Key] /\ \A s \in Source : R[s] = Keys(array[s])
    BY <2>1, KeysType
  <2>3. m \in Nat /\ m \in Keys(rows) \cup Keys(segs) /\ \A s \in Source : key[s] = FirstFrom(R[s], m)
    BY <1>6, <1>7, <1>13, <2>2
  <2>4. m \in R["rows"] \cup R["segs"]
    BY <1>5, <2>2, <2>3 DEF Source
  <2>5. Best(key) # "none"
    <3>1. PICK s \in Source : m \in R[s]
      BY <2>4 DEF Source
    <3>2. PICK f : f = FirstFrom(R[s], m)
      OBVIOUS
    <3>3. f # NoKey
      BY <2>2, <2>3, <3>1, <3>2, FirstFromSays
    <3>4. QED
      BY <1>8, <2>3, <3>2, <3>3, BestIs
  <2>6. PICK c : c = key[Best(key)]
    OBVIOUS
  <2>7. /\ Best(key) \in Source /\ c \in R[Best(key)] /\ c >= m /\ c \in Key
        /\ \A s \in Source : \A j \in R[s] : j >= m => j >= c
        /\ \A s \in Source : key[s] = FirstFrom(R[s], c)
    BY <1>8, <2>2, <2>3, <2>5, <2>6, BestIsFirst
  <2>8. c = m
    <3>1. m >= c
      BY <2>3, <2>4, <2>7 DEF Source
    <3>2. QED
      BY <2>3, <2>7, <3>1, KeyAssumption
  <2>9. CurrentKey' = c
    BY <1>10, <1>13, <2>6 DEF CurrentKey
  <2>10. c # NoKey /\ c \in Nat
    BY <2>7, KeyAssumption DEF NoKey
  <2>11. CursorRight'
    BY <1>5, <1>10, <1>11, <1>13, <2>2, <2>7, <2>8, <2>9, <2>10 DEF CursorRight, StandsAt, Places
  <2>12. \A k \in Key : k < c => Current(k) = Nil
    BY <1>2, <1>6, <1>13, <2>8, KeyAssumption
  <2>13. QED
    BY <2>7, <2>9, <2>11, <2>12
<1>14. ASSUME request.from # NoKey PROVE CursorRight' /\ scan'.pc = "select"
  BY <1>10, <1>14 DEF CursorRight, AtRow
<1>15. QED
  <2>1. CASE request.from = NoKey /\ live = {}
    BY <1>3, <2>1
  <2>2. CASE request.from # NoKey
    BY <1>10, <1>12, <1>14, <2>2
  <2>3. CASE request.from = NoKey /\ live # {}
    BY <1>10, <1>12, <1>13, <2>3
  <2>4. QED
    BY <2>1, <2>2, <2>3
LEMMA CurrentType ==
    ASSUME TypeInv, NEW k \in Key
    PROVE  Current(k) \in Datum
  BY DEF TypeInv, TypeOK, RowSet, Current, Datum

LEMMA GetRowsKeeps ==
    ASSUME RInv, NEW start \in Key \cup {NoKey}, NEW nearest \in BOOLEAN, GetRows(start, nearest)
    PROVE  RInv'
<1> DEFINE request == [NoScan EXCEPT !.start = start, !.from = start, !.nearest = nearest]
<1>1. /\ InitIterator(request) /\ out' = <<>> /\ held' = [k \in Key |-> {Current(k)}]
      /\ UNCHANGED <<rows, segs, writes>> /\ TypeInv
  BY DEF GetRows, RInv
<1>2. /\ request \in Iterator /\ request.start = start /\ request.from = start
      /\ request.nearest = nearest /\ request.more = FALSE /\ request.pc = "idle"
  <2>1. NoRows \in RowSet /\ NoKey \in Key \cup {NoKey} /\ 0 \in 0..PageSize
    BY PageAssumption DEF RowSet, NoRows
  <2>2. QED
    BY <2>1 DEF Iterator, NoScan
<1>3. PICK r \in Iterator : r = request
  BY <1>2
<1> HIDE DEF request
<1>4. /\ \A k \in Key : Current(k)' = Current(k) /\ held'[k] = {Current(k)}
      /\ held' \in [Key -> SUBSET Datum]
  BY <1>1, CurrentType DEF Current
<1>5. \A k \in Key : Current(k) = Nil => ~Lasting(k)'
  BY <1>4 DEF Lasting
<1>6. out' \in Seq([key : Key, data : Value]) /\ ScanOrdered' /\ ScanTrue' /\ Len(out') = 0
  BY <1>1 DEF ScanOrdered, ScanTrue
<1>7. ASSUME scan' \in Iterator, scan'.pc \in Calling => scan'.left # 0, scan'.pc # "between"
      PROVE  TypeInv'
  BY <1>1, <1>4, <1>6, <1>7 DEF TypeInv, TypeOK
<1>8. CASE (\A k \in Key : Current(k) = Nil) /\ scan' = [r EXCEPT !.pc = "done"]
  <2>1. scan' \in Iterator /\ scan'.pc = "done"
    BY <1>8 DEF Iterator
  <2>2. ScanComplete' /\ ReturnedSoFar'
    BY <1>5, <1>8, <2>1 DEF ScanComplete, Lasting, ReturnedSoFar, Calling
  <2>3. QED
    BY <1>4, <1>6, <1>7, <2>1, <2>2 DEF RInv, Calling
<1>9. CASE /\ scan' \in Iterator /\ scan'.left = PageSize
           /\ scan'.pc = IF r.from # NoKey THEN "select" ELSE "emit"
           /\ scan'.from = r.from /\ scan'.start = r.start
           /\ scan'.more = r.more /\ scan'.nearest = r.nearest
           /\ CountsRight' /\ CursorRight'
           /\ \A k \in Key : DataFor(k)' = Current(k)
           /\ ReadsAny' = Keys(rows) \cup Keys(segs)
           /\ scan'.pc = "emit" =>
                 CurrentKey' \in Key /\ \A k \in Key : k < CurrentKey' => Current(k) = Nil
  <2>1. TypeInv'
    BY <1>7, <1>9, PageAssumption
  <2>2. scan'.from = start /\ scan'.start = start /\ scan'.more = FALSE /\ start \in Nat
    BY <1>2, <1>3, <1>9, KeyAssumption DEF NoKey
  <2>3. RequestRight'
    BY <1>1, <1>2, <1>3, <1>9, <2>2 DEF RequestRight
  <2>4. \A k \in Key : k >= start /\ k < Reached' => Current(k) = Nil
    <3>1. CASE start = NoKey
      BY <1>2, <1>3, <1>9, <3>1 DEF Reached
    <3>2. CASE start # NoKey
      <4>1. Reached' = start
        BY <1>2, <1>3, <1>9, <2>2, <3>2 DEF Reached
      <4>2. QED
        BY <2>2, <4>1, KeyAssumption
    <3>3. QED
      BY <3>1, <3>2
  <2>5. ReturnedSoFar'
    BY <1>5, <1>6, <2>2, <2>4 DEF ReturnedSoFar
  <2>6. ScanComplete'
    BY <1>9 DEF ScanComplete
  <2>7. \A k \in Key : DataFor(k)' \in held'[k] /\ Current(k)' \in held'[k]
    BY <1>4, <1>9
  <2>8. QED
    BY <1>1, <1>6, <1>9, <2>1, <2>3, <2>5, <2>6, <2>7 DEF RInv
<1>10. QED
  BY <1>1, <1>3, <1>8, <1>9, InitIteratorRight

LEMMA GetMoreRowsKeeps ==
    ASSUME RInv, "vanish" \notin Windows, GetMoreRows
    PROVE  RInv'
<1> DEFINE request == [scan EXCEPT !.from = Last, !.more = TRUE]
<1>1. /\ scan.pc = "between" /\ Last \in Keys(rows) \cup Keys(segs) /\ InitIterator(request)
      /\ UNCHANGED <<rows, segs, out, held, writes>> /\ TypeInv
  BY DEF GetMoreRows, Last, RInv
<1>2. Last \in Key /\ Last # NoKey /\ out # <<>>
  BY <1>1, KeysType DEF TypeInv, NoKey
<1>3. /\ request \in Iterator /\ request.from = Last /\ request.more
      /\ request.start = scan.start /\ request.nearest = scan.nearest
  BY <1>1, <1>2 DEF TypeInv, TypeOK, Iterator
<1>4. PICK r \in Iterator : r = request
  BY <1>3
<1> HIDE DEF request
<1>5. /\ scan' \in Iterator /\ scan'.left = PageSize /\ scan'.pc = "select"
      /\ scan'.from = Last /\ scan'.start = scan.start
      /\ scan'.more /\ scan'.nearest = scan.nearest
      /\ CountsRight' /\ CursorRight'
      /\ \A k \in Key : DataFor(k)' = Current(k)
      /\ ReadsAny' = Keys(rows) \cup Keys(segs)
  BY <1>1, <1>2, <1>3, <1>4, InitIteratorRight
<1>6. TypeInv'
  BY <1>1, <1>5, PageAssumption DEF TypeInv, TypeOK
<1>7. RequestRight'
  BY <1>1, <1>2, <1>5 DEF RequestRight, Last
<1>8. Reached' = Reached
  BY <1>1, <1>5 DEF Reached
<1>9. ReturnedSoFar' /\ ScanOrdered' /\ ScanTrue' /\ ScanComplete'
  BY <1>1, <1>5, <1>8
     DEF RInv, ReturnedSoFar, Calling, Began, Lasting, Returned, ScanOrdered, ScanTrue, ScanComplete
<1>10. \A k \in Key : DataFor(k)' \in held'[k] /\ Current(k)' \in held'[k]
  BY <1>1, <1>5 DEF RInv, Current
<1>11. QED
  BY <1>5, <1>6, <1>7, <1>9, <1>10 DEF RInv

(* A row that lasts through the scan is one that the iterator can come to. *)
LEMMA LastingIsRead ==
    ASSUME RInv, scan.pc \in Calling, NEW k \in Key, Lasting(k)
    PROVE  k \in ReadsAny
  BY DEF RInv, Lasting, DataFor, ReadsAny

(* A step of the iterator that leaves its sources and its request alone.   *)
SameRequest ==
    /\ scan'.live = scan.live /\ scan'.array = scan.array /\ scan'.segs = scan.segs
    /\ scan'.count = scan.count /\ scan'.start = scan.start /\ scan'.nearest = scan.nearest

LEMMA RowsOfSeq ==
    ASSUME NEW o \in Seq([key : Key, data : Value])
    PROVE  \A i \in 1..Len(o) : o[i] \in [key : Key, data : Value] /\ o[i].key \in Key /\ o[i].data \in Value
<1>1. \A i \in 1..Len(o) : o[i] \in [key : Key, data : Value]
  BY ElementOfSeq
<1>2. QED
  BY <1>1

(* The iterator goes on. *)
LEMMA GoesOn ==
    ASSUME RInv, scan.pc \in Calling, UNCHANGED <<rows, segs, held, writes>>,
           scan' \in Iterator, SameRequest, scan'.pc \in {"emit", "advance", "check"},
           scan'.left # 0, out' \in Seq([key : Key, data : Value]),
           scan'.cur \in Source, CurrentKey' # NoKey, scan'.cur = Best(scan'.key),
           Places(scan'.pos, scan'.key, CurrentKey'),
           Began => \A k \in Key :
              k >= scan.start /\ k < Reached' /\ Lasting(k) => Returned(k)',
           \A i \in 1..Len(out') : out'[i].key < Reached',
           ScanOrdered', ScanTrue'
    PROVE  RInv'
<1>1. TypeInv /\ CountsRight /\ \A k \in Key : DataFor(k) \in held[k] /\ Current(k) \in held[k]
  BY DEF RInv, Calling
<1>2. TypeInv'
  <2>1. \A i \in 1..Len(out') : out'[i].key \in Key /\ out'[i].data \in Value
    BY RowsOfSeq
  <2>2. QED
    BY <1>1, <2>1 DEF TypeInv, TypeOK
<1>3. /\ \A s \in Source : Array(s)' = Array(s) /\ Reads(s)' = Reads(s)
      /\ \A k \in Key : DataFor(k)' = DataFor(k)
      /\ CountsRight' <=> CountsRight
  BY SameSources DEF SameRequest
<1>4. CursorRight'
  BY <1>3 DEF CursorRight, StandsAt, Places, SameRequest
<1>5. ReturnedSoFar'
  BY DEF ReturnedSoFar, Began, Lasting, SameRequest
<1>6. RequestRight' /\ ScanComplete'
  BY DEF RequestRight, ScanComplete
<1>7. \A k \in Key : DataFor(k)' \in held'[k] /\ Current(k)' \in held'[k]
  BY <1>1, <1>3 DEF Current
<1>8. scan'.pc # "idle"
  OBVIOUS
<1>9. QED
  BY <1>1, <1>2, <1>3, <1>4, <1>5, <1>6, <1>7, <1>8 DEF RInv

(* The iterator's request has been served. *)
LEMMA Ends ==
    ASSUME RInv, scan.pc \in Calling, UNCHANGED <<rows, segs, held, writes>>,
           NEW pc \in {"between", "done"}, scan' = Ended(pc),
           out' \in Seq([key : Key, data : Value]), pc = "between" => out' # <<>>,
           pc = "between" => \A i \in 1..Len(out') : out'[i].key < Last' + 1,
           Began => \A k \in Key : /\ k >= scan.start
                                   /\ pc = "between" => k < Last' + 1
                                   /\ Lasting(k)
                                   => Returned(k)',
           ScanOrdered', ScanTrue'
    PROVE  RInv'
<1>1. scan \in Iterator /\ TypeInv
  BY DEF RInv, TypeInv, TypeOK
<1>2. /\ scan'.pc = pc /\ scan'.start = scan.start /\ scan'.nearest = scan.nearest
      /\ scan' \in Iterator
  <2>1. NoRows \in RowSet /\ NoKey \in Key \cup {NoKey} /\ 0 \in 0..PageSize
    BY PageAssumption DEF RowSet, NoRows
  <2>2. QED
    BY <1>1, <2>1 DEF Iterator, Ended, NoScan
<1>3. TypeInv'
  <2>1. \A i \in 1..Len(out') : out'[i].key \in Key /\ out'[i].data \in Value
    BY RowsOfSeq
  <2>2. QED
    BY <1>1, <1>2, <2>1 DEF TypeInv, TypeOK, Calling
<1>4. ReturnedSoFar'
  BY <1>2 DEF ReturnedSoFar, Began, Lasting, Reached, Calling
<1>5. ScanComplete'
  BY <1>2 DEF ScanComplete, Began, Lasting
<1>6. \A k \in Key : Current(k)' \in held'[k]
  BY DEF RInv, Current, Calling
<1>7. QED
  BY <1>2, <1>3, <1>4, <1>5, <1>6 DEF RInv, Calling

LEMMA SelectKeeps ==
    ASSUME RInv, SelectKey
    PROVE  RInv'
<1> DEFINE found == {s \in Source : scan.count[s] > 0 /\ Array(s)[scan.from] # NoRow}
           pos == [s \in Source |-> Position(Array(s), scan.from)]
           key == [s \in Source |-> KeyOf(s, pos[s])]
           cur == IF found = {} THEN Best(key) ELSE IF "rows" \in found THEN "rows" ELSE "segs"
<1>1. /\ scan.pc = "select" /\ UNCHANGED <<rows, segs, out, held, writes>> /\ scan.pc \in Calling
      /\ TypeInv /\ CountsRight /\ RequestRight /\ scan \in Iterator
      /\ out \in Seq([key : Key, data : Value])
      /\ ScanOrdered /\ ScanTrue /\ ReturnedSoFar
      /\ \A k \in Key : DataFor(k) \in held[k]
  BY DEF SelectKey, RInv, TypeInv, TypeOK, Calling
<1>2. scan' = IF (found = {} /\ ~scan.nearest) \/ cur = "none" THEN Ended("done")
              ELSE [scan EXCEPT !.pos = pos, !.key = key, !.cur = cur,
                                !.pc = IF scan.more THEN "advance" ELSE "emit"]
  BY DEF SelectKey
<1>3. scan.from \in Key /\ scan.from \in Nat \ {0} /\ scan.left \in 1..PageSize
  <2>1. scan.from \in Key \cup {NoKey} /\ scan.left \in 0..PageSize
    BY <1>1 DEF Iterator
  <2>2. scan.from # NoKey /\ scan.left # 0
    BY <1>1 DEF RequestRight, TypeInv
  <2>3. PICK from, left : from = scan.from /\ left = scan.left
    OBVIOUS
  <2>4. from \in Key /\ from \in Nat \ {0}
    BY <2>1, <2>2, <2>3, KeyAssumption
  <2>5. left \in 1..PageSize
    BY <2>1, <2>2, <2>3, PageAssumption
  <2>6. QED
    BY <2>3, <2>4, <2>5
<1>4. \A s \in Source : s \in found <=> scan.from \in Reads(s)
  BY <1>1, <1>3, SourceType DEF Reads, Keys
<1>5. /\ pos \in [Source -> Nat]
      /\ \A s \in Source : pos[s] = Position(Array(s), scan.from)
      /\ \A s \in Source : key[s] = FirstFrom(Reads(s), scan.from)
  <2>1. \A s \in Source : pos[s] = Position(Array(s), scan.from) /\ pos[s] \in Nat
    BY KeysType
  <2>2. pos \in [Source -> Nat]
    BY <2>1
  <2>3. ASSUME NEW s \in Source PROVE key[s] = FirstFrom(Reads(s), scan.from)
    <3>1. key[s] = KeyOf(s, pos[s])
      OBVIOUS
    <3>2. PICK p \in Nat : p = pos[s]
      BY <2>1
    <3> HIDE DEF key, pos
    <3>3. QED
      BY <1>1, <1>3, <2>1, <3>1, <3>2, KeyOfIsFirst
  <2>4. QED
    BY <2>1, <2>2, <2>3
<1>6. key \in [Source -> Key \cup {NoKey}] /\ key \in [Source -> Nat]
  <2>1. ASSUME NEW s \in Source PROVE FirstFrom(Reads(s), scan.from) \in Key \cup {NoKey}
    <3>1. PICK f : f = FirstFrom(Reads(s), scan.from)
      OBVIOUS
    <3>2. f = NoKey \/ IsFirst(Reads(s), scan.from, f)
      BY <1>1, <1>3, <3>1, SourceType, FirstFromSays
    <3>3. QED
      BY <1>1, <3>1, <3>2, SourceType DEF IsFirst
  <2>2. key \in [Source -> Key \cup {NoKey}]
    BY <1>5, <2>1
  <2>3. Key \cup {NoKey} \subseteq Nat
    BY KeyAssumption DEF NoKey
  <2> HIDE DEF key
  <2>4. QED
    BY <2>2, <2>3
<1> HIDE DEF pos, key
<1>7. found # {} <=> scan.from \in ReadsAny
  BY <1>4 DEF ReadsAny, Source
<1>8. /\ scan.more => scan.from \in ReadsAny /\ Reached = scan.from + 1
      /\ ~scan.more => scan.from = scan.start /\ Reached = scan.from /\ out = <<>>
  BY <1>1 DEF RequestRight, Reached
<1>9. Began => \A k \in Key : k >= scan.start /\ k < Reached /\ Lasting(k) => Returned(k)
  BY <1>1 DEF ReturnedSoFar
<1>10. \A i \in 1..Len(out) : out[i].key < Reached
  BY <1>1 DEF ReturnedSoFar
<1>11. Lasting(scan.from) => found # {}
  BY <1>1, <1>3, <1>7, LastingIsRead
<1>12. ScanOrdered' /\ ScanTrue'
  BY <1>1 DEF ScanOrdered, ScanTrue
<1>13. CASE Best(key) = "none"
  <2>1. ASSUME NEW j \in ReadsAny PROVE j < scan.from
    <3>1. PICK s \in Source : j \in Reads(s)
      BY DEF ReadsAny, Source
    <3>2. key[s] = NoKey
      BY <1>6, <1>13, BestIs
    <3>3. QED
      BY <1>1, <1>3, <1>5, <3>1, <3>2, SourceType, FirstFromSays
  <2>2. scan.from \notin ReadsAny
    BY <1>3, <2>1
  <2>3. scan' = Ended("done") /\ ~scan.more
    BY <1>2, <1>7, <1>8, <1>13, <2>2
  <2>4. \A k \in Key : k >= scan.start => ~Lasting(k)
    BY <1>1, <1>3, <1>8, <2>1, <2>3, LastingIsRead, KeyAssumption
  <2>5. QED
    BY <1>1, <1>12, <2>3, <2>4, Ends
<1>14. CASE Best(key) # "none"
  <2>1. PICK c : c = key[Best(key)]
    OBVIOUS
  <2>2. /\ c \in ReadsAny /\ c >= scan.from /\ c \in Key /\ c \in Nat
        /\ \A j \in ReadsAny : j >= scan.from => j >= c
        /\ Places(pos, key, c)
    <3>1. /\ c \in ReadsAny /\ c >= scan.from /\ c \in Key
          /\ \A j \in ReadsAny : j >= scan.from => j >= c
          /\ Places(pos, key, c)
      <4>1. Places(pos, key, scan.from)
        BY <1>5 DEF Places
      <4> HIDE DEF found, cur
      <4>2. QED
        BY <1>1, <1>3, <1>5, <1>6, <1>14, <2>1, <4>1, BestStands
    <3>2. QED
      BY <3>1, KeyAssumption
  <2>3. Best(key) \in Source /\ c # NoKey
    BY <1>6, <1>14, <2>1, BestIs
  <2>4. ASSUME found # {} PROVE c = scan.from /\ cur = Best(key)
    <3>1. c = scan.from
      BY <1>3, <1>7, <2>2, <2>4
    <3>2. \A s \in Source : scan.from \in Reads(s) <=> key[s] = scan.from
      <4>1. ASSUME NEW s \in Source, scan.from \in Reads(s) PROVE key[s] = scan.from
        <5>1. IsFirst(Reads(s), scan.from, scan.from)
          BY <1>1, <1>3, <4>1, SourceType DEF IsFirst
        <5>2. QED
          BY <1>1, <1>3, <1>5, <5>1, FirstIs, SourceType
      <4>2. ASSUME NEW s \in Source, key[s] = scan.from PROVE scan.from \in Reads(s)
        <5>1. IsFirst(Reads(s), scan.from, scan.from)
          BY <1>1, <1>3, <1>5, <4>2, FirstFromSays, SourceType DEF NoKey
        <5>2. QED
          BY <5>1 DEF IsFirst
      <4>3. QED
        BY <4>1, <4>2
    <3>3. CASE Best(key) = "rows"
      BY <1>4, <2>1, <2>4, <3>1, <3>2, <3>3 DEF Source
    <3>4. CASE Best(key) = "segs"
      <4>1. key["rows"] # key["segs"] /\ key["segs"] = scan.from
        BY <1>6, <1>14, <2>1, <3>1, <3>4, BestIs
      <4>2. "rows" \notin found
        BY <1>4, <3>2, <4>1 DEF Source
      <4>3. QED
        BY <2>4, <3>1, <3>4, <4>2
    <3>5. QED
      BY <2>3, <3>3, <3>4 DEF Source
  <2>5. cur = Best(key)
    BY <2>4
  <2>6. CASE found = {} /\ ~scan.nearest
    <3>1. scan' = Ended("done") /\ ~scan.more
      BY <1>2, <1>7, <1>8, <2>6
    <3>2. Nil \in held[scan.start]
      BY <1>1, <1>3, <1>7, <1>8, <2>6, <3>1 DEF ReadsAny, DataFor
    <3>3. ~Began
      BY <1>3, <1>8, <2>6, <3>1, <3>2 DEF Began, NoKey
    <3>4. QED
      BY <1>1, <1>12, <3>1, <3>3, Ends
  <2>7. CASE found # {} \/ scan.nearest
    <3>1. /\ scan' \in Iterator /\ SameRequest /\ scan'.left # 0
          /\ scan'.pc = IF scan.more THEN "advance" ELSE "emit"
          /\ scan'.pos = pos /\ scan'.key = key /\ scan'.cur = Best(key)
      <4>1. scan' = [scan EXCEPT !.pos = pos, !.key = key, !.cur = Best(key),
                                 !.pc = IF scan.more THEN "advance" ELSE "emit"]
        BY <1>2, <1>14, <2>5, <2>7
      <4> HIDE DEF found, cur
      <4>2. PICK pc : pc = IF scan.more THEN "advance" ELSE "emit"
        OBVIOUS
      <4>3. pc \in Calling /\ Best(key) \in Source \cup {"none"} /\ scan.left # 0
        BY <1>1, <2>3, <4>2 DEF Calling, TypeInv
      <4>4. scan' = [scan EXCEPT !.pos = pos, !.key = key, !.cur = Best(key), !.pc = pc]
        BY <4>1, <4>2
      <4>5. QED
        BY <1>1, <1>5, <1>6, <4>2, <4>3, <4>4 DEF Iterator, SameRequest
    <3>2. CurrentKey' = c
      BY <2>1, <3>1 DEF CurrentKey
    <3>3. scan.more => c = scan.from
      BY <1>7, <1>8, <2>4
    <3>4. Reached' = IF scan.more THEN c + 1 ELSE c
      BY <3>1, <3>2 DEF Reached
    <3>5. ASSUME Began, NEW k \in Key, k >= scan.start, k < Reached', Lasting(k)
          PROVE  Returned(k)'
      <4>1. CASE scan.more
        BY <1>1, <1>8, <1>9, <3>3, <3>4, <3>5, <4>1 DEF Returned
      <4>2. CASE ~scan.more
        <5>1. k \in ReadsAny /\ k >= scan.from /\ k < c /\ k \in Nat
          BY <1>1, <1>8, <3>4, <3>5, <4>2, LastingIsRead, KeyAssumption
        <5>2. QED
          BY <2>2, <5>1
      <4>3. QED
        BY <4>1, <4>2
    <3>6. \A i \in 1..Len(out') : out'[i].key < Reached'
      BY <1>1, <1>8, <1>10, <3>3, <3>4
    <3> HIDE DEF found, cur
    <3>7. Places(scan'.pos, scan'.key, CurrentKey')
      BY <2>2, <3>1, <3>2
    <3>8. /\ scan'.cur \in Source /\ CurrentKey' # NoKey /\ scan'.cur = Best(scan'.key)
          /\ scan'.pc \in {"emit", "advance", "check"}
      BY <2>3, <3>1, <3>2
    <3>9. QED
      BY <1>1, <1>12, <3>1, <3>5, <3>6, <3>7, <3>8, GoesOn
  <2>8. QED
    BY <2>6, <2>7
<1>15. QED
  BY <1>13, <1>14

(* What the steps at a row have in common. *)
LEMMA AtCurrent ==
    ASSUME RInv, AtRow
    PROVE  /\ scan.pc \in Calling /\ TypeInv /\ CountsRight /\ scan \in Iterator
           /\ CurrentKey \in Key /\ CurrentKey \in Nat /\ CurrentKey # NoKey
           /\ KeyAt(Array(scan.cur), scan.pos[scan.cur]) = CurrentKey
           /\ DataAt(scan.cur) = DataFor(CurrentKey)
           /\ DataFor(CurrentKey) \in held[CurrentKey] /\ DataFor(CurrentKey) \in Datum
           /\ scan.cur \in Source /\ scan.cur = Best(scan.key) /\ scan.left \in 1..PageSize
           /\ scan.pos \in [Source -> Nat] /\ scan.key \in [Source -> Key \cup {NoKey}]
           /\ Places(scan.pos, scan.key, CurrentKey)
           /\ out \in Seq([key : Key, data : Value])
<1>1. /\ scan.pc \in Calling /\ TypeInv /\ CountsRight /\ CursorRight /\ scan \in Iterator
      /\ held \in [Key -> SUBSET Datum] /\ out \in Seq([key : Key, data : Value])
      /\ \A k \in Key : DataFor(k) \in held[k]
  BY DEF RInv, TypeInv, TypeOK, AtRow, Calling
<1>2. CurrentKey \in Key /\ CurrentKey \in Nat /\ CurrentKey # NoKey
  BY <1>1, ReadsCurrent, KeyAssumption DEF NoKey
<1>3. DataFor(CurrentKey) \in held[CurrentKey] /\ DataFor(CurrentKey) \in Datum
  BY <1>1, <1>2
<1>4. scan.left \in 1..PageSize
  <2>1. PICK left : left = scan.left
    OBVIOUS
  <2>2. left \in 0..PageSize /\ left # 0
    BY <1>1, <2>1 DEF Iterator, TypeInv
  <2>3. QED
    BY <2>1, <2>2, PageAssumption
<1>5. /\ scan.cur \in Source /\ scan.cur = Best(scan.key)
      /\ Places(scan.pos, scan.key, CurrentKey)
  BY <1>1 DEF CursorRight, StandsAt, Places
<1>6. scan.pos \in [Source -> Nat] /\ scan.key \in [Source -> Key \cup {NoKey}]
  BY <1>1 DEF Iterator
<1>7. QED
  BY <1>1, <1>2, <1>3, <1>4, <1>5, <1>6, ReadsCurrent

(* The iterator stays where it is. *)
LEMMA StaysAtRow ==
    ASSUME RInv, AtRow, UNCHANGED <<rows, segs, held, writes>>,
           NEW pc \in {"emit", "advance", "check"}, NEW left \in 1..PageSize,
           scan' = [scan EXCEPT !.pc = pc, !.left = left],
           out' \in Seq([key : Key, data : Value]),
           NEW reached, reached = IF pc = "advance" THEN CurrentKey + 1 ELSE CurrentKey,
           Began => \A k \in Key :
              k >= scan.start /\ k < reached /\ Lasting(k) => Returned(k)',
           \A i \in 1..Len(out') : out'[i].key < reached,
           ScanOrdered', ScanTrue'
    PROVE  RInv'
<1>1. /\ scan' \in Iterator /\ SameRequest /\ scan'.pc = pc /\ scan'.left # 0
      /\ scan'.pos = scan.pos /\ scan'.key = scan.key /\ scan'.cur = scan.cur
  <2>1. left \in 0..PageSize /\ pc \in Calling /\ left # 0
    BY PageAssumption DEF Calling
  <2>2. QED
    BY <2>1, AtCurrent DEF Iterator, SameRequest
<1>2. CurrentKey' = CurrentKey
  BY <1>1 DEF CurrentKey
<1>3. Reached' = reached
  BY <1>1, <1>2 DEF Reached
<1>4. /\ scan'.cur \in Source /\ CurrentKey' # NoKey /\ scan'.cur = Best(scan'.key)
      /\ scan.pc \in Calling
  BY <1>1, <1>2, AtCurrent
<1>5. Places(scan'.pos, scan'.key, CurrentKey')
  BY <1>1, <1>2, AtCurrent
<1>6. QED
  BY <1>1, <1>3, <1>4, <1>5, GoesOn

(* Nothing lasting is at the current key, or it has just been returned:    *)
(* then the scan has come to the key after it.                             *)
LEMMA PassesCurrent ==
    ASSUME RInv, scan.pc \in {"emit", "check"}, NEW o, Began,
           \A i \in 1..Len(out) : \E j \in 1..Len(o) : o[j].key = out[i].key,
           Lasting(CurrentKey) => \E j \in 1..Len(o) : o[j].key = CurrentKey,
           NEW k \in Key, k >= scan.start, k < CurrentKey + 1, Lasting(k)
    PROVE  \E j \in 1..Len(o) : o[j].key = k
<1>1. AtRow /\ scan.pc \in Calling /\ Reached = CurrentKey
  BY DEF AtRow, Calling, Reached
<1>2. CurrentKey \in Nat /\ k \in Nat
  BY <1>1, AtCurrent, KeyAssumption
<1>3. CASE k = CurrentKey
  BY <1>3
<1>4. CASE k < CurrentKey
  <2>1. Returned(k)
    BY <1>1, <1>4 DEF RInv, ReturnedSoFar
  <2>2. QED
    BY <2>1 DEF Returned
<1>5. QED
  BY <1>2, <1>3, <1>4

LEMMA SkipNilKeeps ==
    ASSUME RInv, SkipNil
    PROVE  RInv'
<1>1. /\ scan.pc = "check" /\ UNCHANGED <<rows, segs, out, held, writes>>
      /\ scan' = [scan EXCEPT !.pc = IF DataAt(scan.cur) = Nil THEN "advance" ELSE "emit"]
      /\ AtRow /\ Reached = CurrentKey /\ ReturnedSoFar
      /\ scan.pc \in Calling /\ ScanOrdered /\ ScanTrue
  BY DEF SkipNil, AtRow, Reached, Calling, RInv
<1>2. PICK left \in 1..PageSize, pc \in {"emit", "advance"} :
         left = scan.left /\ pc = IF DataAt(scan.cur) = Nil THEN "advance" ELSE "emit"
  BY <1>1, AtCurrent
<1>3. scan' = [scan EXCEPT !.pc = pc, !.left = left] /\ pc \in {"emit", "advance", "check"}
  BY <1>1, <1>2, AtCurrent DEF Iterator
<1>4. PICK reached : reached = IF pc = "advance" THEN CurrentKey + 1 ELSE CurrentKey
  OBVIOUS
<1>5. CurrentKey \in Nat
  BY <1>1, AtCurrent
<1>6. \A i \in 1..Len(out') : out'[i].key < reached
  <2>1. \A i \in 1..Len(out) : out[i].key < CurrentKey /\ out[i].key \in Nat
    BY <1>1, AtCurrent, RowsOfSeq, KeyAssumption DEF ReturnedSoFar
  <2>2. CASE pc = "advance"
    BY <1>1, <1>4, <1>5, <2>1, <2>2
  <2>3. CASE pc # "advance"
    BY <1>1, <1>4, <2>1, <2>3
  <2>4. QED
    BY <2>2, <2>3
<1>7. Began => \A k \in Key :
              k >= scan.start /\ k < reached /\ Lasting(k) => Returned(k)'
  <2>1. CASE pc = "advance"
    <3>1. ~Lasting(CurrentKey)
      BY <1>1, <1>2, <2>1, AtCurrent DEF Lasting
    <3>2. QED
      BY <1>1, <1>4, <2>1, <3>1, PassesCurrent DEF Returned
  <2>2. CASE pc # "advance"
    BY <1>1, <1>4, <2>2 DEF ReturnedSoFar, Returned
  <2>3. QED
    BY <2>1, <2>2
<1>8. out' \in Seq([key : Key, data : Value]) /\ ScanOrdered' /\ ScanTrue'
      /\ UNCHANGED <<rows, segs, held, writes>>
  BY <1>1, AtCurrent DEF ScanOrdered, ScanTrue
<1>9. QED
  BY <1>1, <1>3, <1>4, <1>6, <1>7, <1>8, StaysAtRow

LEMMA EmitKeeps ==
    ASSUME RInv, Emit
    PROVE  RInv'
<1> DEFINE data == DataAt(scan.cur)
           left == IF data = Nil THEN scan.left ELSE scan.left - 1
<1>1. /\ scan.pc = "emit" /\ UNCHANGED <<rows, segs, held, writes>>
      /\ out' = IF data = Nil THEN out
                ELSE Append(out, [key |-> KeyAt(Array(scan.cur), scan.pos[scan.cur]),
                                  data |-> data])
      /\ scan' = IF left = 0 THEN Ended("between")
                 ELSE [scan EXCEPT !.left = left, !.pc = "advance"]
  BY DEF Emit
<1>2. /\ AtRow /\ scan.pc \in Calling /\ Reached = CurrentKey
      /\ ReturnedSoFar /\ ScanOrdered /\ ScanTrue
  BY <1>1 DEF AtRow, Reached, Calling, RInv
<1>3. PICK d, c : d = data /\ c = CurrentKey
  OBVIOUS
<1>4. PICK n : n = left
  OBVIOUS
<1>5. /\ c \in Key /\ c \in Nat /\ d \in Datum /\ d = DataFor(c) /\ d \in held[c]
      /\ scan.left \in 1..PageSize /\ scan \in Iterator
      /\ out \in Seq([key : Key, data : Value])
      /\ n = IF d = Nil THEN scan.left ELSE scan.left - 1
  BY <1>2, <1>3, <1>4, AtCurrent
<1>6. /\ out' = IF d = Nil THEN out ELSE Append(out, [key |-> c, data |-> d])
      /\ scan' = IF n = 0 THEN Ended("between") ELSE [scan EXCEPT !.left = n, !.pc = "advance"]
  BY <1>1, <1>2, <1>3, <1>4, AtCurrent
<1> HIDE DEF data, left
<1>7. \A i \in 1..Len(out) : out[i].key < c /\ out[i].key \in Nat
  BY <1>2, <1>3, <1>5, RowsOfSeq, KeyAssumption DEF ReturnedSoFar
<1>8. CASE d = Nil
  <2>1. out' = out /\ n = scan.left /\ n \in 1..PageSize
    BY <1>5, <1>6, <1>8
  <2>2. PICK pc \in {"emit", "advance", "check"} : pc = "advance"
    OBVIOUS
  <2>3. scan' = [scan EXCEPT !.pc = pc, !.left = n]
    <3>1. n # 0
      BY <2>1
    <3>2. QED
      BY <1>5, <1>6, <2>2, <3>1 DEF Iterator
  <2>4. PICK reached : reached = IF pc = "advance" THEN CurrentKey + 1 ELSE CurrentKey
    OBVIOUS
  <2>5. ~Lasting(CurrentKey)
    BY <1>3, <1>5, <1>8 DEF Lasting
  <2>6. Began => \A k \in Key :
              k >= scan.start /\ k < reached /\ Lasting(k) => Returned(k)'
    BY <1>1, <2>1, <2>2, <2>4, <2>5, PassesCurrent DEF Returned
  <2>7. \A i \in 1..Len(out') : out'[i].key < reached
    BY <1>3, <1>5, <1>7, <2>1, <2>2, <2>4
  <2>8. ScanOrdered' /\ ScanTrue' /\ out' \in Seq([key : Key, data : Value])
    BY <1>1, <1>2, <1>5, <2>1 DEF ScanOrdered, ScanTrue
  <2>9. QED
    BY <1>1, <1>2, <2>1, <2>3, <2>4, <2>6, <2>7, <2>8, StaysAtRow
<1>9. CASE d # Nil
  <2>1. PICK r \in [key : Key, data : Value] : r = [key |-> c, data |-> d]
    BY <1>5, <1>9 DEF Datum
  <2>2. /\ out' = Append(out, r) /\ r.key = c /\ r.data = d /\ n = scan.left - 1
    BY <1>5, <1>6, <1>9, <2>1
  <2>3. /\ out' \in Seq([key : Key, data : Value]) /\ Len(out) \in Nat
        /\ Len(out') = Len(out) + 1 /\ out' # <<>>
        /\ \A i \in 1..Len(out) : out'[i] = out[i]
        /\ out'[Len(out')] = r
    <3>1. PICK S : S = [key : Key, data : Value]
      OBVIOUS
    <3>2. out \in Seq(S) /\ r \in S
      BY <1>5, <2>1, <3>1
    <3>3. /\ out' \in Seq(S) /\ Len(out) \in Nat
          /\ Len(out') = Len(out) + 1 /\ out' # <<>>
          /\ \A i \in 1..Len(out) : out'[i] = out[i]
          /\ out'[Len(out')] = r
      BY <2>2, <3>2
    <3>4. QED
      BY <3>1, <3>3
  <2>4. Last' = c
    BY <2>2, <2>3 DEF Last
  <2>5. \A i \in 1..Len(out') : i \in 1..Len(out) \/ i = Len(out')
    BY <2>3
  <2>6. \A i \in 1..Len(out') : out'[i].key < c + 1
    BY <1>5, <1>7, <2>2, <2>3, <2>5
  <2>7. ScanOrdered'
    <3>1. ASSUME NEW i \in 1..Len(out'), NEW j \in 1..Len(out'), i < j
          PROVE  out'[i].key < out'[j].key
      <4>1. i \in 1..Len(out)
        BY <2>3, <3>1
      <4>2. CASE j \in 1..Len(out)
        BY <1>2, <2>3, <3>1, <4>1, <4>2 DEF ScanOrdered
      <4>3. CASE j = Len(out')
        BY <1>7, <2>2, <2>3, <4>1, <4>3
      <4>4. QED
        BY <2>5, <4>2, <4>3
    <3>2. QED
      BY <3>1 DEF ScanOrdered
  <2>8. ScanTrue'
    BY <1>1, <1>2, <1>5, <2>2, <2>3, <2>5 DEF ScanTrue
  <2>9. \A i \in 1..Len(out) : \E j \in 1..Len(out') : out'[j].key = out[i].key
    BY <2>3
  <2>10. \E j \in 1..Len(out') : out'[j].key = CurrentKey
    BY <1>3, <2>2, <2>3
  <2>11. ASSUME Began, NEW k \in Key, k >= scan.start, k < c + 1, Lasting(k)
         PROVE  Returned(k)'
    <3>1. PICK o : o = out'
      OBVIOUS
    <3>2. k < CurrentKey + 1
      BY <1>3, <2>11
    <3>3. \A i \in 1..Len(out) : \E j \in 1..Len(o) : o[j].key = out[i].key
      BY <2>9, <3>1
    <3>4. Lasting(CurrentKey) => \E j \in 1..Len(o) : o[j].key = CurrentKey
      BY <2>10, <3>1
    <3>5. \E j \in 1..Len(o) : o[j].key = k
      BY <1>1, <2>11, <3>2, <3>3, <3>4, PassesCurrent
    <3>6. QED
      BY <3>1, <3>5 DEF Returned
  <2>12. CASE n = 0
    <3>1. PICK pc \in {"between", "done"} : pc = "between"
      OBVIOUS
    <3>2. scan' = Ended(pc)
      BY <1>6, <2>12, <3>1
    <3>3. \A i \in 1..Len(out') : out'[i].key < Last' + 1
      BY <2>4, <2>6
    <3>4. Began => \A k \in Key : /\ k >= scan.start
                                  /\ pc = "between" => k < Last' + 1
                                  /\ Lasting(k)
                                  => Returned(k)'
      BY <2>4, <2>11, <3>1
    <3>5. QED
      BY <1>1, <1>2, <2>3, <2>7, <2>8, <3>1, <3>2, <3>3, <3>4, Ends
  <2>13. CASE n # 0
    <3>1. PICK pc \in {"emit", "advance", "check"} : pc = "advance"
      OBVIOUS
    <3>2. n \in 1..PageSize
      BY <1>5, <2>2, <2>13, PageAssumption
    <3>3. scan' = [scan EXCEPT !.pc = pc, !.left = n]
      BY <1>5, <1>6, <2>13, <3>1 DEF Iterator
    <3>4. PICK reached : reached = IF pc = "advance" THEN CurrentKey + 1 ELSE CurrentKey
      OBVIOUS
    <3>5. reached = c + 1
      BY <1>3, <3>1, <3>4
    <3>6. Began => \A k \in Key :
              k >= scan.start /\ k < reached /\ Lasting(k) => Returned(k)'
      BY <2>11, <3>5
    <3>7. \A i \in 1..Len(out') : out'[i].key < reached
      BY <2>6, <3>5
    <3>8. QED
      BY <1>1, <1>2, <2>3, <2>7, <2>8, <3>2, <3>3, <3>4, <3>6, <3>7, StaysAtRow
  <2>14. QED
    BY <2>12, <2>13
<1>10. QED
  BY <1>8, <1>9

LEMMA AdvanceKeeps ==
    ASSUME RInv, Advance
    PROVE  RInv'
<1> DEFINE pos == [s \in Source |->
                      IF s = scan.cur \/ scan.key[s] = scan.key[scan.cur]
                      THEN scan.pos[s] + 1 ELSE scan.pos[s]]
           key == [s \in Source |->
                      IF pos[s] = scan.pos[s] THEN scan.key[s] ELSE KeyOf(s, pos[s])]
<1>1. /\ scan.pc = "advance" /\ UNCHANGED <<rows, segs, out, held, writes>>
      /\ scan' = IF Best(key) = "none" THEN Ended("done")
                 ELSE [scan EXCEPT !.pos = pos, !.key = key, !.cur = Best(key),
                                   !.pc = "check"]
  BY DEF Advance
<1>2. PICK c : c = CurrentKey
  OBVIOUS
<1>3. /\ AtRow /\ scan.pc \in Calling /\ Reached = c + 1
      /\ ReturnedSoFar /\ ScanOrdered /\ ScanTrue
  BY <1>1, <1>2 DEF AtRow, Reached, Calling, RInv
<1>4. /\ TypeInv /\ CountsRight /\ scan \in Iterator /\ c \in Key /\ c \in Nat /\ c # NoKey
      /\ scan.cur \in Source /\ scan.key[scan.cur] = c /\ scan.left \in 1..PageSize
      /\ scan.pos \in [Source -> Nat] /\ scan.key \in [Source -> Key \cup {NoKey}]
      /\ Places(scan.pos, scan.key, c)
      /\ out \in Seq([key : Key, data : Value])
  BY <1>2, <1>3, AtCurrent DEF CurrentKey
<1>5. \A s \in Source : /\ pos[s] \in Nat
                        /\ pos[s] = IF scan.key[s] = c THEN scan.pos[s] + 1 ELSE scan.pos[s]
                        /\ key[s] = IF scan.key[s] = c THEN KeyOf(s, pos[s]) ELSE scan.key[s]
  <2>1. ASSUME NEW s \in Source
        PROVE  /\ pos[s] \in Nat
               /\ pos[s] = IF scan.key[s] = c THEN scan.pos[s] + 1 ELSE scan.pos[s]
    BY <1>4
  <2>2. ASSUME NEW s \in Source
        PROVE  key[s] = IF scan.key[s] = c THEN KeyOf(s, pos[s]) ELSE scan.key[s]
    <3>1. key[s] = IF pos[s] = scan.pos[s] THEN scan.key[s] ELSE KeyOf(s, pos[s])
      OBVIOUS
    <3>2. scan.pos[s] \in Nat
      BY <1>4
    <3> HIDE DEF pos, key
    <3>3. QED
      BY <2>1, <3>1, <3>2
  <2> HIDE DEF pos, key
  <2>3. QED
    BY <2>1, <2>2
<1>6. pos \in [Source -> Nat]
  BY <1>5
<1>7. DOMAIN key = Source /\ key = [s \in Source |-> key[s]]
  OBVIOUS
<1> HIDE DEF pos, key
<1>8. ASSUME NEW s \in Source
      PROVE  /\ key[s] = FirstFrom(Reads(s), c + 1)
             /\ scan.count[s] # 0 => pos[s] = Position(Array(s), c + 1)
  <2>1. CASE scan.key[s] = c
    <3>1. IsFirst(Reads(s), c, c) /\ Reads(s) \subseteq Key
      BY <1>4, <2>1, FirstFromSays, SourceType DEF Places
    <3>2. c \in Reads(s)
      BY <3>1 DEF IsFirst
    <3>3. scan.count[s] # 0 /\ c \in Keys(Array(s))
      BY <3>2 DEF Reads
    <3>4. pos[s] = scan.pos[s] + 1 /\ scan.pos[s] = Position(Array(s), c)
      BY <1>4, <1>5, <2>1, <3>3 DEF Places
    <3>5. Position(Array(s), c + 1) = Position(Array(s), c) + 1
      BY <3>3, PositionsGrow
    <3>6. pos[s] = Position(Array(s), c + 1) /\ pos[s] \in Nat /\ c + 1 \in Nat
      BY <1>4, <1>5, <3>4, <3>5
    <3>7. key[s] = FirstFrom(Reads(s), c + 1)
      <4>1. KeyOf(s, pos[s]) = FirstFrom(Reads(s), c + 1)
        BY <1>4, <3>6, KeyOfIsFirst
      <4>2. QED
        BY <1>5, <2>1, <4>1
    <3>8. QED
      BY <3>6, <3>7
  <2>2. CASE scan.key[s] # c
    <3>1. Reads(s) \subseteq Key /\ Reads(s) \subseteq Nat
      BY <1>4, SourceType
    <3>2. c \notin Reads(s)
      <4>1. ASSUME c \in Reads(s) PROVE IsFirst(Reads(s), c, c)
        BY <1>4, <3>1, <4>1 DEF IsFirst
      <4>2. ASSUME c \in Reads(s) PROVE FALSE
        BY <1>4, <2>2, <3>1, <4>1, <4>2, FirstIs DEF Places
      <4>3. QED
        BY <4>2
    <3>3. \A j \in Reads(s) : j >= c => j >= c + 1
      BY <1>4, <3>1, <3>2
    <3>4. FirstFrom(Reads(s), c) = FirstFrom(Reads(s), c + 1)
      BY <1>4, <3>1, <3>3, FirstFromSame
    <3>5. ASSUME scan.count[s] # 0 PROVE pos[s] = Position(Array(s), c + 1)
      <4>1. Reads(s) = Keys(Array(s))
        BY <3>5 DEF Reads
      <4>2. Position(Array(s), c) = Position(Array(s), c + 1)
        BY <1>4, <3>3, <4>1, PositionSame
      <4>3. QED
        BY <1>4, <1>5, <2>2, <3>5, <4>2 DEF Places
    <3>6. QED
      BY <1>4, <1>5, <2>2, <3>4, <3>5 DEF Places
  <2>3. QED
    BY <2>1, <2>2
<1>9. key \in [Source -> Key \cup {NoKey}] /\ key \in [Source -> Nat]
  <2>1. ASSUME NEW s \in Source PROVE key[s] \in Key \cup {NoKey}
    <3>1. PICK f : f = FirstFrom(Reads(s), c + 1)
      OBVIOUS
    <3>2. Reads(s) \subseteq Key /\ c + 1 \in Nat
      BY <1>4, SourceType
    <3>3. f = NoKey \/ IsFirst(Reads(s), c + 1, f)
      BY <3>1, <3>2, FirstFromSays
    <3>4. QED
      BY <1>8, <3>1, <3>2, <3>3 DEF IsFirst
  <2>2. Key \cup {NoKey} \subseteq Nat
    BY KeyAssumption DEF NoKey
  <2>3. QED
    BY <1>7, <2>1, <2>2
<1>10. Began => \A k \in Key : k >= scan.start /\ k < c + 1 /\ Lasting(k) => Returned(k)
  BY <1>3 DEF ReturnedSoFar
<1>11. \A i \in 1..Len(out) : out[i].key < c + 1 /\ out[i].key \in Nat
  BY <1>3, <1>4, RowsOfSeq, KeyAssumption DEF ReturnedSoFar
<1>12. ScanOrdered' /\ ScanTrue'
  BY <1>1, <1>3 DEF ScanOrdered, ScanTrue
<1>13. CASE Best(key) = "none"
  <2>1. PICK pc \in {"between", "done"} : pc = "done"
    OBVIOUS
  <2>2. scan' = Ended(pc)
    BY <1>1, <1>13, <2>1
  <2>3. ASSUME NEW k \in ReadsAny PROVE k < c + 1
    <3>1. PICK s \in Source : k \in Reads(s)
      BY DEF ReadsAny, Source
    <3>2. key[s] = NoKey
      BY <1>9, <1>13, BestIs
    <3>3. Reads(s) \subseteq Key /\ c + 1 \in Nat
      BY <1>4, SourceType
    <3>4. FirstFrom(Reads(s), c + 1) = NoKey
      BY <1>8, <3>2
    <3>5. QED
      BY <3>1, <3>3, <3>4, FirstFromSays
  <2>4. Began => \A k \in Key : /\ k >= scan.start
                                /\ pc = "between" => k < Last' + 1
                                /\ Lasting(k)
                                => Returned(k)'
    BY <1>1, <1>3, <1>10, <2>3, LastingIsRead DEF Returned
  <2>5. QED
    BY <1>1, <1>3, <1>4, <1>12, <2>1, <2>2, <2>4, Ends
<1>14. CASE Best(key) # "none"
  <2>1. PICK n : n = key[Best(key)]
    OBVIOUS
  <2>2. /\ n \in ReadsAny /\ n >= c + 1 /\ n \in Key
        /\ \A j \in ReadsAny : j >= c + 1 => j >= n
        /\ Places(pos, key, n)
    <3>1. Places(pos, key, c + 1)
      BY <1>8 DEF Places
    <3>2. c + 1 \in Nat
      BY <1>4
    <3>3. QED
      BY <1>4, <1>6, <1>9, <1>14, <2>1, <3>1, <3>2, BestStands
  <2>3. Best(key) \in Source /\ n # NoKey /\ n \in Nat
    BY <1>9, <1>14, <2>1, BestIs
  <2>4. /\ scan' \in Iterator /\ SameRequest /\ scan'.left # 0 /\ scan'.pc = "check"
        /\ scan'.pos = pos /\ scan'.key = key /\ scan'.cur = Best(key)
    <3>1. "check" \in Calling /\ Best(key) \in Source \cup {"none"} /\ scan.left # 0
      BY <1>4, <2>3 DEF Calling
    <3>2. scan' = [scan EXCEPT !.pos = pos, !.key = key, !.cur = Best(key), !.pc = "check"]
      BY <1>1, <1>14
    <3>3. QED
      BY <1>4, <1>6, <1>9, <3>1, <3>2 DEF Iterator, SameRequest
  <2>5. CurrentKey' = n /\ Reached' = n
    BY <2>1, <2>4 DEF CurrentKey, Reached
  <2>6. ASSUME Began, NEW k \in Key, k >= scan.start, k < n, Lasting(k)
        PROVE  Returned(k)'
    <3>1. k \in ReadsAny /\ k \in Nat
      BY <1>3, <2>6, LastingIsRead, KeyAssumption
    <3>2. k < c + 1
      BY <1>4, <2>2, <2>3, <2>6, <3>1
    <3>3. QED
      BY <1>1, <1>10, <2>6, <3>2 DEF Returned
  <2>7. Began => \A k \in Key :
              k >= scan.start /\ k < Reached' /\ Lasting(k) => Returned(k)'
    BY <2>5, <2>6
  <2>8. \A i \in 1..Len(out') : out'[i].key < Reached'
    BY <1>1, <1>4, <1>11, <2>2, <2>3, <2>5
  <2>9. Places(scan'.pos, scan'.key, CurrentKey')
    BY <2>2, <2>4, <2>5
  <2>10. /\ scan'.cur \in Source /\ CurrentKey' # NoKey /\ scan'.cur = Best(scan'.key)
         /\ scan'.pc \in {"emit", "advance", "check"}
         /\ UNCHANGED <<rows, segs, held, writes>> /\ out' \in Seq([key : Key, data : Value])
    BY <1>1, <1>4, <2>3, <2>4, <2>5
  <2>11. QED
    BY <1>3, <1>12, <2>4, <2>7, <2>8, <2>9, <2>10, GoesOn
<1>15. QED
  BY <1>13, <1>14

-----------------------------------------------------------------------------
LEMMA InitRInv == Init => RInv
<1> SUFFICES ASSUME Init PROVE RInv
  OBVIOUS
<1>1. /\ rows \in RowSet /\ segs \in RowSet /\ scan = NoScan /\ out = <<>>
      /\ held = [k \in Key |-> {}] /\ writes = 0
  BY DEF Init
<1>2. scan \in Iterator /\ scan.pc = "idle"
  <2>1. NoRows \in RowSet /\ NoKey \in Key \cup {NoKey} /\ 0 \in 0..PageSize
    BY PageAssumption DEF RowSet, NoRows
  <2>2. QED
    BY <1>1, <2>1 DEF Iterator, NoScan
<1>3. Len(out) = 0 /\ out \in Seq([key : Key, data : Value])
  BY <1>1
<1>4. TypeInv
  BY <1>1, <1>2, <1>3, PageAssumption DEF TypeInv, TypeOK, Calling
<1>5. QED
  BY <1>1, <1>2, <1>3, <1>4
     DEF RInv, Calling, ReturnedSoFar, ScanOrdered, ScanTrue, ScanComplete

LEMMA NextRInv ==
    ASSUME RInv, [Next]_vars, Windows \cap {"shift", "vanish"} = {}
    PROVE  RInv'
<1>1. CASE UNCHANGED vars
  <2>1. TypeInv' /\ \A k \in Key : held[k] \subseteq held'[k]
    BY <1>1 DEF vars, RInv, TypeInv, TypeOK
  <2>2. scan' = [scan EXCEPT !.live = scan'.live, !.array = scan'.array]
    BY <1>1 DEF vars, RInv, TypeInv, TypeOK, Iterator
  <2>3. \A k \in Key : Current(k)' = Current(k) /\ held'[k] = held[k]
    BY <1>1 DEF vars, Current
  <2>4. /\ \A s \in Source : Array(s)' = Array(s) /\ Reads(s)' = Reads(s)
        /\ \A k \in Key : DataFor(k)' = DataFor(k)
    BY <1>1, SameSources DEF vars
  <2>5. \A s \in Source : Keys(Array(s))' = Keys(Array(s))
    BY <2>4 DEF Keys
  <2>6. out' = out
    BY <1>1 DEF vars
  <2>7. QED
    BY <2>1, <2>2, <2>3, <2>4, <2>5, <2>6, WritersKeep DEF RInv
<1>2. CASE \E k \in Key, d \in Datum : Insert(k, d)
  BY <1>2, InsertKeeps
<1>3. CASE Save
  BY <1>3, SaveKeeps
<1>4. CASE Compact
  BY <1>4, CompactKeeps
<1>5. CASE \E start \in Key \cup {NoKey}, nearest \in BOOLEAN : GetRows(start, nearest)
  BY <1>5, GetRowsKeeps
<1>6. CASE GetMoreRows
  BY <1>6, GetMoreRowsKeeps
<1>7. CASE SelectKey
  BY <1>7, SelectKeeps
<1>8. CASE Emit
  BY <1>8, EmitKeeps
<1>9. CASE Advance
  BY <1>9, AdvanceKeeps
<1>10. CASE SkipNil
  BY <1>10, SkipNilKeeps
<1>11. QED
  BY <1>1, <1>2, <1>3, <1>4, <1>5, <1>6, <1>7, <1>8, <1>9, <1>10 DEF Next

(* Outside both windows the invariant always holds. *)
THEOREM RInvHolds == Windows \cap {"shift", "vanish"} = {} => (Spec => []RInv)
<1> SUFFICES ASSUME Windows \cap {"shift", "vanish"} = {} PROVE Spec => []RInv
  OBVIOUS
<1>1. RInv /\ [Next]_vars => RInv'
  BY NextRInv
<1>2. QED
  BY <1>1, InitRInv, PTL DEF Spec

(* A scan (CAeonTable::GetRows, page by page) returns every row from its   *)
(* start on that existed throughout, whatever threads insert, save and     *)
(* compact between any two calls of its iterator.  Outside the two windows *)
(* the table has: a key inserted into the array being read, and the last   *)
(* key of a page that is gone before the next page is asked for.           *)
THEOREM ScanReturnsAll == Windows \cap {"shift", "vanish"} = {} => (Spec => []ScanComplete)
<1> SUFFICES ASSUME Windows \cap {"shift", "vanish"} = {} PROVE Spec => []ScanComplete
  OBVIOUS
<1>1. Spec => []RInv
  BY RInvHolds
<1>2. RInv => ScanComplete
  BY DEF RInv
<1>3. QED
  BY <1>1, <1>2, PTL

(* A scan returns rows in key order, none twice: neither the merge of the  *)
(* memory rows with the segments nor the start of the next page goes back. *)
THEOREM ScanInOrder == Windows \cap {"shift", "vanish"} = {} => (Spec => []ScanOrdered)
<1> SUFFICES ASSUME Windows \cap {"shift", "vanish"} = {} PROVE Spec => []ScanOrdered
  OBVIOUS
<1>1. Spec => []RInv
  BY RInvHolds
<1>2. RInv => ScanOrdered
  BY DEF RInv
<1>3. QED
  BY <1>1, <1>2, PTL

(* A scan never returns data that its row did not have at some moment of   *)
(* the scan: the older version of a row in a segment is never read from    *)
(* under the newer one in memory.                                          *)
THEOREM ScanReturnsTrue == Windows \cap {"shift", "vanish"} = {} => (Spec => []ScanTrue)
<1> SUFFICES ASSUME Windows \cap {"shift", "vanish"} = {} PROVE Spec => []ScanTrue
  OBVIOUS
<1>1. Spec => []RInv
  BY RInvHolds
<1>2. RInv => ScanTrue
  BY DEF RInv
<1>3. QED
  BY <1>1, <1>2, PTL

=============================================================================
