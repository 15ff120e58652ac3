------------------------------ MODULE RowScan -------------------------------
(***************************************************************************)
(* A client reads a view of an AeonDB table in key order, page by page      *)
(* (Aeon.getRows, then Aeon.getMoreRows after the last key of the page      *)
(* before), while other threads insert, save and compact.                   *)
(*                                                                          *)
(* CAeonTable::GetRows gives up m_cs before it reads: its CRowIterator      *)
(* holds the array of memory rows, which stays live, and the segments,      *)
(* which never change and are taken as one here.  Each call of the iterator *)
(* on the array takes the array's own lock once and is one action           *)
(* (SelectKey, which takes it twice, is one action also).                   *)
(***************************************************************************)
EXTENDS Naturals, Sequences, FiniteSets

CONSTANTS Key,        \* keys, in the order of the view's dimensions
          Value,      \* row data other than nil
          Nil,        \* nil data
          NoRow,      \* no entry
          PageSize,   \* iRowCount
          MaxWrites,  \* bound on inserts
          Windows     \* the delicate windows a behaviour may enter

ASSUME KeyAssumption == Key \subseteq Nat \ {0} /\ IsFiniteSet(Key)
ASSUME CellAssumption == Nil \notin Value /\ NoRow \notin Value \cup {Nil}
ASSUME PageAssumption == PageSize \in Nat \ {0} /\ MaxWrites \in Nat
ASSUME WindowsAssumption == Windows \subseteq {"shift", "vanish"}

VARIABLES
    rows,    \* CAeonView::m_pRows
    segs,    \* the segments, newest over oldest
    scan,    \* the iterator (CRowIterator) and the request it serves
    out,     \* the rows returned to the client since the scan began
    held,    \* history: the data each row has had since the scan began
    writes   \* history: inserts so far

vars == <<rows, segs, scan, out, held, writes>>

Datum == Value \cup {Nil}
RowSet == [Key -> Datum \cup {NoRow}]
NoRows == [k \in Key |-> NoRow]
NoKey == 0
Source == {"rows", "segs"}    \* rows first: the first source wins a tie

(* "between" is the client holding a page, before it asks for the next. *)
Calling == {"select", "emit", "advance", "check"}
Iterator ==
    [pc : Calling \cup {"idle", "between", "done"},
     from : Key \cup {NoKey}, more : BOOLEAN, nearest : BOOLEAN, start : Key \cup {NoKey},
     left : 0..PageSize, live : BOOLEAN, array : RowSet, segs : RowSet,
     pos : [Source -> Nat], count : [Source -> Nat], key : [Source -> Key \cup {NoKey}],
     cur : Source \cup {"none"}]

(* The type of the table and of a scan; the rows returned are never nil. *)
TypeOK ==
    /\ rows \in RowSet
    /\ segs \in RowSet
    /\ scan \in Iterator
    /\ \A i \in 1..Len(out) : out[i].key \in Key /\ out[i].data \in Value
    /\ held \in [Key -> SUBSET Datum]
    /\ writes \in 0..MaxWrites

Keys(a) == {k \in Key : a[k] # NoRow}
Before(S, k) == {j \in S : j < k}
Position(a, k) == Cardinality(Before(Keys(a), k))
KeyAt(a, n) == CHOOSE k \in Keys(a) : Position(a, k) = n
Smallest(S) == CHOOSE k \in S : Before(S, k) = {}

Current(k) ==
    IF rows[k] # NoRow THEN rows[k] ELSE IF segs[k] # NoRow THEN segs[k] ELSE Nil

NoScan ==
    [pc |-> "idle", from |-> NoKey, more |-> FALSE, nearest |-> FALSE, start |-> NoKey,
     left |-> 0, live |-> FALSE, array |-> NoRows, segs |-> NoRows,
     pos |-> [s \in Source |-> 0], count |-> [s \in Source |-> 0],
     key |-> [s \in Source |-> NoKey], cur |-> "none"]

(* The request has been served and its iterator is gone. *)
Ended(pc) == [NoScan EXCEPT !.pc = pc, !.start = scan.start, !.nearest = scan.nearest]

(* A table with any rows. *)
Init ==
    /\ rows \in RowSet
    /\ segs \in RowSet
    /\ scan = NoScan
    /\ out = <<>>
    /\ held = [k \in Key |-> {}]
    /\ writes = 0

-----------------------------------------------------------------------------
(* Writers *)

(* The iterator has an entry for the array that m_pRows still is. *)
HoldsLiveArray == scan.pc \in Calling /\ scan.live /\ scan.count["rows"] > 0

Insert(k, d) ==
    /\ writes < MaxWrites
    /\ HoldsLiveArray /\ rows[k] = NoRow => "shift" \in Windows
    /\ rows' = [rows EXCEPT ![k] = d]
    /\ held' = [held EXCEPT ![k] = @ \cup {d}]
    /\ writes' = writes + 1
    /\ UNCHANGED <<segs, scan, out>>

(* Save gives the view a new array; the iterator keeps a reference to the old. *)
Save ==
    /\ rows # NoRows
    /\ segs' = [k \in Key |-> IF rows[k] # NoRow THEN rows[k] ELSE segs[k]]
    /\ rows' = NoRows
    /\ scan' = IF scan.pc \in Calling /\ scan.live
               THEN [scan EXCEPT !.live = FALSE, !.array = rows] ELSE scan
    /\ UNCHANGED <<out, held, writes>>

(* A merge down to the oldest segment eliminates the tombstones. *)
Compact ==
    /\ \E k \in Key : segs[k] = Nil
    /\ segs' = [k \in Key |-> IF segs[k] = Nil THEN NoRow ELSE segs[k]]
    /\ UNCHANGED <<rows, scan, out, held, writes>>

-----------------------------------------------------------------------------
(* The iterator *)

Array(s) ==
    IF s = "segs" THEN scan.segs ELSE IF scan.live THEN rows ELSE scan.array
DataAt(s) == Array(s)[KeyAt(Array(s), scan.pos[s])]

(* Mutant: of equal keys, the segments' comes first. *)
BestOldest(key) ==
    LET given == {s \in Source : key[s] # NoKey}
        least == {s \in given : \A t \in given : key[s] <= key[t]}
    IN  IF given = {} THEN "none" ELSE IF "segs" \in least THEN "segs" ELSE "rows"

(* The source with the smallest key, rows before segments. *)
Best(key) ==
    LET given == {s \in Source : key[s] # NoKey}
        least == {s \in given : \A t \in given : key[s] <= key[t]}
    IN  IF given = {} THEN "none" ELSE IF "rows" \in least THEN "rows" ELSE "segs"

KeyOfBeforeLast(s, pos) ==    \* mutant: ends a row early
    IF pos + 1 < scan.count[s] THEN KeyAt(Array(s), pos) ELSE NoKey
KeyOf(s, pos) == IF pos < scan.count[s] THEN KeyAt(Array(s), pos) ELSE NoKey

(* InitIterator, under m_cs, ends at the first row that is not nil. *)
InitIterator(request) ==
    LET both == Keys(rows) \cup Keys(segs)
        live == {k \in both : Current(k) # Nil}
        at(a) == IF live = {} THEN Cardinality(Keys(a)) ELSE Position(a, Smallest(live))
        array == [s \in Source |-> IF s = "rows" THEN rows ELSE segs]
        pos == [s \in Source |-> at(array[s])]
        count == [s \in Source |-> Cardinality(Keys(array[s]))]
        key == [s \in Source |->
                   IF pos[s] < count[s] THEN KeyAt(array[s], pos[s]) ELSE NoKey]
    IN  scan' = IF request.from = NoKey /\ live = {} THEN [request EXCEPT !.pc = "done"]
                ELSE [request EXCEPT
                    !.pc = IF request.from # NoKey THEN "select" ELSE "emit",
                    !.left = PageSize, !.live = TRUE, !.array = NoRows, !.segs = segs,
                    !.pos = pos, !.count = count, !.key = key, !.cur = Best(key)]

(* Aeon.getRows {view} {start} {PageSize} *)
GetRows(start, nearest) ==
    /\ scan.pc \in {"idle", "between", "done"}
    /\ InitIterator([NoScan EXCEPT !.start = start, !.from = start, !.nearest = nearest])
    /\ out' = <<>>
    /\ held' = [k \in Key |-> {Current(k)}]
    /\ UNCHANGED <<rows, segs, writes>>

(* Aeon.getMoreRows {view} {last key of the page before} {PageSize} *)
GetMoreRows ==
    /\ scan.pc = "between"
    /\ LET last == out[Len(out)].key
       IN  /\ last \notin Keys(rows) \cup Keys(segs) => "vanish" \in Windows
           /\ InitIterator([scan EXCEPT !.from = last, !.more = TRUE])
    /\ UNCHANGED <<rows, segs, out, held, writes>>

SelectKey ==
    /\ scan.pc = "select"
    /\ LET found == {s \in Source : scan.count[s] > 0 /\ Array(s)[scan.from] # NoRow}
           pos == [s \in Source |-> Position(Array(s), scan.from)]
           key == [s \in Source |-> KeyOf(s, pos[s])]
           cur == IF found = {} THEN Best(key) ELSE IF "rows" \in found THEN "rows" ELSE "segs"
       IN  scan' = IF (found = {} /\ ~scan.nearest) \/ cur = "none" THEN Ended("done")
                   ELSE [scan EXCEPT !.pos = pos, !.key = key, !.cur = cur,
                                     !.pc = IF scan.more THEN "advance" ELSE "emit"]
    /\ UNCHANGED <<rows, segs, out, held, writes>>

(* GetRow at the cursor.  A tombstone is not returned, and not counted. *)
Emit ==
    /\ scan.pc = "emit"
    /\ LET data == DataAt(scan.cur)
           left == IF data = Nil THEN scan.left ELSE scan.left - 1
       IN  /\ out' = IF data = Nil THEN out
                     ELSE Append(out, [key |-> KeyAt(Array(scan.cur), scan.pos[scan.cur]),
                                       data |-> data])
           /\ scan' = IF left = 0 THEN Ended("between")
                       ELSE [scan EXCEPT !.left = left, !.pc = "advance"]
    /\ UNCHANGED <<rows, segs, held, writes>>

(* Mutant: only the current source goes to its next key. *)
AdvanceCurrent ==
    /\ scan.pc = "advance"
    /\ LET pos == [scan.pos EXCEPT ![scan.cur] = @ + 1]
           key == [scan.key EXCEPT ![scan.cur] = KeyOf(scan.cur, pos[scan.cur])]
       IN  scan' = IF Best(key) = "none" THEN Ended("done")
                   ELSE [scan EXCEPT !.pos = pos, !.key = key, !.cur = Best(key),
                                     !.pc = "check"]
    /\ UNCHANGED <<rows, segs, out, held, writes>>

(* Every source that is at the current key goes to its next. *)
Advance ==
    /\ scan.pc = "advance"
    /\ LET pos == [s \in Source |->
                      IF s = scan.cur \/ scan.key[s] = scan.key[scan.cur]
                      THEN scan.pos[s] + 1 ELSE scan.pos[s]]
           key == [s \in Source |->
                      IF pos[s] = scan.pos[s] THEN scan.key[s] ELSE KeyOf(s, pos[s])]
       IN  scan' = IF Best(key) = "none" THEN Ended("done")
                   ELSE [scan EXCEPT !.pos = pos, !.key = key, !.cur = Best(key),
                                     !.pc = "check"]
    /\ UNCHANGED <<rows, segs, out, held, writes>>

(* AdvanceUntilNonNil reads the row again. *)
SkipNil ==
    /\ scan.pc = "check"
    /\ scan' = [scan EXCEPT !.pc = IF DataAt(scan.cur) = Nil THEN "advance" ELSE "emit"]
    /\ UNCHANGED <<rows, segs, out, held, writes>>

-----------------------------------------------------------------------------
Next ==
    \/ \E k \in Key, d \in Datum : Insert(k, d)
    \/ Save
    \/ Compact
    \/ \E start \in Key \cup {NoKey}, nearest \in BOOLEAN : GetRows(start, nearest)
    \/ GetMoreRows
    \/ SelectKey
    \/ Emit
    \/ Advance
    \/ SkipNil

Spec == Init /\ [][Next]_vars

-----------------------------------------------------------------------------
Returned(k) == \E i \in 1..Len(out) : out[i].key = k

(* The client knew where to begin: at the first row, at a key that existed *)
(* throughout, or at the nearest.                                          *)
Began == scan.start = NoKey \/ scan.nearest \/ Nil \notin held[scan.start]

(* A scan returns every row at or after its start that existed from its     *)
(* beginning to its end, whatever was overwritten, saved or compacted       *)
(* meanwhile and between pages (CAeonTable::GetRows).                       *)
ScanComplete ==
    scan.pc = "done" /\ Began =>
        \A k \in Key : k >= scan.start /\ held[k] # {} /\ Nil \notin held[k] => Returned(k)

(* A client that asks for the nearest key misses no row either when the last *)
(* key of its page is gone by the time it asks for the rows after it (the    *)
(* notes on FLAG_MORE_ROWS and FLAG_NEAREST in AeonDb.h).                    *)
NearestScanComplete == scan.nearest => ScanComplete

(* A scan returns rows in key order, each at most once. *)
ScanOrdered == \A i, j \in 1..Len(out) : i < j => out[i].key < out[j].key

(* A scan never returns data that its row did not have at some moment of *)
(* the scan: no stale version from under a newer one.                    *)
ScanTrue == \A i \in 1..Len(out) : out[i].data \in held[out[i].key]
=============================================================================
