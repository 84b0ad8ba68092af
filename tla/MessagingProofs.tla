---------------------------- MODULE MessagingProofs ----------------------------
(***************************************************************************)
(* Proofs about the components that talk to the outside, one after the     *)
(* other and then together, for every value of their constants.            *)
(***************************************************************************)
EXTENDS MCMessaging, SumTheorems, SequenceTheorems

--------------------------------------------------------------------------------
(* The event indexer                                                       *)

\* The community modules' Min of such a set is that least element.
LEMMA MinIsLeast ==
  ASSUME NEW S \in SUBSET Nat, S # {}
  PROVE  Min(S) \in S /\ \A m \in S : Min(S) <= m
  <1>1. \E n \in S : \A m \in S : n <= m
    BY Smallest
  <1> QED
    BY <1>1 DEF Min

\* A page holds the first events that are unread, and all of them unless it is full.
LEMMA PageHoldsFirst ==
  ASSUME NEW n \in Nat, NEW unread \in SUBSET (1 .. n)
  PROVE  /\ PageOf(unread) \subseteq unread
         /\ \A e \in unread \ PageOf(unread), d \in PageOf(unread) : d < e
         /\ PageOf(unread) = {} => unread = {}
         /\ Cardinality(PageOf(unread)) # IndexPage => PageOf(unread) = unread
  <1> DEFINE Before(e) == {d \in unread : d < e}
             page == PageOf(unread)
  <1>0. unread \in SUBSET Nat /\ \A e \in unread : e \in Int /\ e \in Nat /\ e <= n
    OBVIOUS
  <1>1. IsFiniteSet(unread)
    <2>1. IsFiniteSet(1 .. n)
      BY FS_Interval
    <2> QED
      BY <2>1, FS_Subset
  <1>2. \A e \in unread : Before(e) \subseteq unread /\ IsFiniteSet(Before(e)) /\ Cardinality(Before(e)) \in Nat
    BY <1>1, FS_Subset, FS_CardinalityType
  <1>3. page = {e \in unread : Cardinality(Before(e)) < IndexPage}
    BY DEF PageOf
  <1>4. IndexPage \in Nat \ {0}
    BY IndexerAssumption DEF IndexerAssumption
  <1>5. \A d, e \in unread : d <= e => Cardinality(Before(d)) <= Cardinality(Before(e))
    <2> SUFFICES ASSUME NEW d \in unread, NEW e \in unread, d <= e
                 PROVE  Cardinality(Before(d)) <= Cardinality(Before(e))
      OBVIOUS
    <2>1. d \in Int /\ e \in Int /\ \A c \in unread : c \in Int
      BY <1>0
    <2>2. \A c \in Int : c < d => c < e
      BY <2>1
    <2>3. Before(d) \subseteq Before(e)
      BY <2>1, <2>2
    <2> QED
      BY <1>2, <2>3, FS_Subset
  <1>6. \A e \in unread \ page, d \in page : d < e
    <2> SUFFICES ASSUME NEW e \in unread \ page, NEW d \in page, ~(d < e) PROVE FALSE
      OBVIOUS
    <2>1. d \in unread /\ e \in unread
      BY <1>3
    <2>0. e <= d
      BY <1>0, <2>1
    <2> HIDE DEF Before
    <2>2. Cardinality(Before(e)) <= Cardinality(Before(d))
      BY <1>5, <2>0, <2>1
    <2> HIDE DEF page
    <2> QED
      BY <1>2, <1>3, <1>4, <2>1, <2>2
  <1>7. ASSUME unread # {} PROVE page # {}
    <2>1. PICK m \in unread : \A e \in unread : m <= e
      BY <1>0, <1>7, Smallest
    <2>2. \A e \in unread : ~(e < m)
      BY <1>0, <2>1
    <2>4. Before(m) = {}
      BY <2>2
    <2>3. Cardinality(Before(m)) = 0
      BY <2>4, FS_EmptySet
    <2> QED
      BY <1>3, <1>4, <2>3
  <1>8. ASSUME page # unread PROVE Cardinality(page) = IndexPage
    <2>1. unread \ page \in SUBSET Nat /\ unread \ page # {}
      BY <1>0, <1>3, <1>8
    <2>2. PICK m \in unread \ page : \A e \in unread \ page : m <= e
      BY <2>1, Smallest
    <2>10. \A e \in page : e \in unread /\ e < m
      BY <1>3, <1>6, <2>2
    <2>11. \A e \in unread : e < m => e \in page
      <3> SUFFICES ASSUME NEW e \in unread \ page PROVE ~(e < m)
        OBVIOUS
      <3>1. m <= e /\ e \in Int /\ m \in Int
        BY <1>0, <2>2
      <3> QED
        BY <3>1
    <2>3. Before(m) = page
      <3> HIDE DEF page
      <3> QED
        BY <2>10, <2>11
    <2>4. Cardinality(page) \in Nat /\ Cardinality(page) >= IndexPage
      <3> HIDE DEF Before
      <3> QED
        BY <1>2, <1>3, <1>4, <2>2, <2>3
    <2>5. page # {}
      BY <1>7, <2>1
    <2>6. PICK p \in page : \A e \in page : e <= p
      BY <1>0, <1>3, <2>5, Greatest
    <2>12. p \in unread /\ p \in Int
      BY <1>0, <1>3, <2>6
    <2>13. \A e \in page : e \in unread /\ (e = p \/ e < p)
      <3> SUFFICES ASSUME NEW e \in page PROVE e \in unread /\ (e = p \/ e < p)
        OBVIOUS
      <3>1. e \in unread /\ e \in Int /\ e <= p
        BY <1>0, <1>3, <2>6
      <3> QED
        BY <2>12, <3>1
    <2>14. \A e \in unread : e < p => e \in page
      <3> SUFFICES ASSUME NEW e \in unread, e \notin page PROVE ~(e < p)
        OBVIOUS
      <3>1. p < e /\ e \in Int
        BY <1>0, <1>6, <2>6
      <3> QED
        BY <2>12, <3>1
    <2>7. page = Before(p) \cup {p} /\ p \notin Before(p) /\ p \in unread
      <3>1. ~(p < p)
        BY <2>12
      <3> HIDE DEF page
      <3> QED
        BY <2>6, <2>12, <2>13, <2>14, <3>1
    <2>8. Cardinality(page) = Cardinality(Before(p)) + 1
      <3> HIDE DEF page, Before
      <3> QED
        BY <1>2, <2>7, FS_AddElement
    <2>9. Cardinality(Before(p)) < IndexPage
      BY <1>3, <2>6
    <2> HIDE DEF page, Before
    <2> QED
      BY <1>2, <1>4, <2>4, <2>7, <2>8, <2>9
  <1> QED
    BY <1>3, <1>6, <1>7, <1>8

CyclePcs == {"idle", "fetch", "apply", "save"}
CycleRow == [pc : CyclePcs, last : Nat, seen : Nat, after : Nat, todo : SUBSET Nat, full : BOOLEAN]

LogRow == [kind : EventKinds, ledger : Nat]

IndexTypes ==
    /\ contractLog \in Seq(LogRow)
    /\ ledger \in Nat /\ ledgerCursor \in Nat
    /\ cycle \in [Indexers -> CycleRow]

\* An event needs no more work.
Dealt(e) == e \in handled \/ contractLog[e].kind = "other"

\* Every event up to a ledger needs no more work.
DealtUpTo(l) == \A e \in DOMAIN contractLog : contractLog[e].ledger <= l => Dealt(e)

\* What a poll with record r has still to read.
Ahead(r) == {e \in DOMAIN contractLog : e > r.after /\ StartsAfter(e, r.last)}

\* A poll has dealt with what lies behind it, takes a page in order, reads all of a
\* page that is not full, and saves a ledger when no event is left up to it.
CycleFits(r) ==
    r.pc # "idle" =>
        /\ r.last <= ledger /\ r.seen <= ledger /\ r.after <= Len(contractLog)
        /\ \A e \in DOMAIN contractLog : contractLog[e].ledger <= r.last \/ e <= r.after => Dealt(e)
        /\ r.pc = "apply" =>
              /\ r.todo \subseteq Ahead(r)
              /\ \A e \in Ahead(r) \ r.todo, d \in r.todo : d < e
              /\ ~r.full => \A e \in Ahead(r) : contractLog[e].ledger <= r.seen => e \in r.todo
        /\ r.pc = "save" => \A e \in Ahead(r) : contractLog[e].ledger > r.seen

IndexInv ==
    /\ IndexTypes
    /\ \A e \in DOMAIN contractLog : contractLog[e].ledger <= ledger
    /\ ledgerCursor <= ledger /\ DealtUpTo(ledgerCursor)
    /\ \A i \in Indexers : CycleFits(cycle[i])

\* The record of one poll becomes r, the cursor may change.
CycleMove(i, r) ==
    /\ r \in CycleRow /\ cycle' = [cycle EXCEPT ![i] = r]
    /\ UNCHANGED <<contractLog, ledger>>
    /\ handled \subseteq handled'
    /\ ledgerCursor' \in Nat /\ ledgerCursor' <= ledger /\ DealtUpTo(ledgerCursor)'
    /\ CycleFits(r)'

\* What a poll knows stays true when events are dealt with.
LEMMA FitsGrow ==
  ASSUME NEW r, CycleFits(r), UNCHANGED <<contractLog, ledger>>, handled \subseteq handled'
  PROVE  CycleFits(r)'
  <1>1. \A e : Dealt(e) => Dealt(e)'
    BY DEF Dealt
  <1>2. Ahead(r)' = Ahead(r)
    BY DEF Ahead, StartsAfter
  <1> QED
    BY <1>1, <1>2 DEF CycleFits

\* Such a move keeps the invariant.
LEMMA CycleMoves ==
  ASSUME IndexInv, NEW i \in Indexers, NEW r, CycleMove(i, r)
  PROVE  IndexInv'
  <1>1. cycle \in [Indexers -> CycleRow] /\ r \in CycleRow /\ cycle' = [cycle EXCEPT ![i] = r]
    BY DEF IndexInv, IndexTypes, CycleMove
  <1>2. \A j \in Indexers : cycle'[j] = IF j = i THEN r ELSE cycle[j]
    BY <1>1
  <1>3. cycle' \in [Indexers -> CycleRow]
    BY <1>1
  <1>4. /\ UNCHANGED <<contractLog, ledger>> /\ handled \subseteq handled' /\ CycleFits(r)'
        /\ ledgerCursor' \in Nat /\ ledgerCursor' <= ledger /\ DealtUpTo(ledgerCursor)'
    BY DEF CycleMove
  <1>5. (\A j \in Indexers : CycleFits(cycle[j]))'
    <2> SUFFICES ASSUME NEW j \in Indexers PROVE CycleFits(cycle[j])'
      OBVIOUS
    <2>1. PICK c : c = cycle[j]
      OBVIOUS
    <2>2. CycleFits(c)'
      BY <1>4, <2>1, FitsGrow DEF IndexInv
    <2>3. CASE j = i
      <3>1. cycle'[j] = r
        BY <1>2, <2>3
      <3> QED
        BY ONLY <1>4, <3>1 DEF CycleFits, Ahead, StartsAfter, Dealt
    <2>4. CASE j # i
      <3>1. cycle'[j] = c
        BY <1>2, <2>1, <2>4
      <3> QED
        BY ONLY <2>2, <3>1 DEF CycleFits, Ahead, StartsAfter, Dealt
    <2> QED
      BY <2>3, <2>4
  <1>6. IndexTypes'
    BY <1>3, <1>4 DEF IndexInv, IndexTypes
  <1>7. (\A e \in DOMAIN contractLog : contractLog[e].ledger <= ledger)'
    BY <1>4 DEF IndexInv
  <1> QED
    BY <1>4, <1>5, <1>6, <1>7 DEF IndexInv

\* It holds at the start.
LEMMA IndexInitially ==
  ASSUME IndexInit PROVE IndexInv
  <1>1. contractLog = << >> /\ DOMAIN contractLog = {}
    BY DEF IndexInit
  <1>2. IdleCycle \in CycleRow /\ IdleCycle.pc = "idle"
    BY DEF IdleCycle, CycleRow, CyclePcs
  <1>3. \A i \in Indexers : cycle[i] = IdleCycle
    BY DEF IndexInit
  <1>4. IndexTypes
    BY <1>1, <1>2 DEF IndexInit, IndexTypes
  <1>5. \A i \in Indexers : CycleFits(cycle[i])
    BY <1>2, <1>3 DEF CycleFits
  <1> QED
    BY <1>1, <1>4, <1>5 DEF IndexInit, IndexInv, DealtUpTo

\* A ledger that closes holds events that no poll has seen: they come behind every
\* other and in a later ledger than any a poll knows.
LEMMA BlockCloses ==
  ASSUME IndexInv, NEW block \in Blocks, CloseBlock(block)
  PROVE  IndexInv'
  <1>1. /\ contractLog \in Seq(LogRow) /\ ledger \in Nat
        /\ ledgerCursor \in Nat /\ cycle \in [Indexers -> CycleRow]
        /\ \A e \in DOMAIN contractLog : contractLog[e].ledger <= ledger
        /\ ledgerCursor <= ledger /\ DealtUpTo(ledgerCursor)
    BY DEF IndexInv, IndexTypes
  <1>2. block \in Seq(EventKinds)
    BY IndexerAssumption DEF IndexerAssumption
  <1>3. PICK new : new = [k \in DOMAIN block |-> [kind |-> block[k], ledger |-> ledger + 1]]
    OBVIOUS
  <1>4. /\ contractLog' = contractLog \o new /\ ledger' = ledger + 1
        /\ UNCHANGED <<ledgerCursor, cycle, handled>>
    BY <1>3 DEF CloseBlock
  <1>5. new \in Seq(LogRow)
    <2>1. PICK l \in Nat : DOMAIN block = 1 .. l
      BY <1>2
    <2>2. \A k \in 1 .. l : [kind |-> block[k], ledger |-> ledger + 1] \in LogRow
      BY <1>1, <1>2, <2>1 DEF LogRow
    <2>3. new \in [1 .. l -> LogRow]
      BY <1>3, <2>1, <2>2
    <2> QED
      BY <2>3, SeqDef
  <1>6. \A k \in DOMAIN new : new[k].ledger = ledger + 1
    BY <1>3
  <1>7. PICK n \in Nat : n = Len(contractLog) /\ DOMAIN contractLog = 1 .. n
    BY <1>1
  <1>8. /\ contractLog' \in Seq(LogRow)
        /\ Len(contractLog') >= n
        /\ \A e \in DOMAIN contractLog' :
              \/ e \in DOMAIN contractLog /\ contractLog'[e] = contractLog[e]
              \/ e \in Nat /\ e > n /\ contractLog'[e].ledger = ledger + 1
    BY <1>1, <1>4, <1>5, <1>6, <1>7
  <1>9. \A e \in DOMAIN contractLog : Dealt(e) => Dealt(e)'
    BY <1>1, <1>4, <1>5, <1>7 DEF Dealt
  <1>10. \A e \in DOMAIN contractLog : contractLog[e].ledger \in Nat
    <2>1. \A e \in 1 .. n : contractLog[e] \in LogRow
      BY <1>1, <1>7, ElementOfSeq
    <2> QED
      BY <1>7, <2>1 DEF LogRow
  <1>11. IndexTypes'
    BY <1>1, <1>4, <1>8 DEF IndexTypes
  <1>12. (\A e \in DOMAIN contractLog : contractLog[e].ledger <= ledger)'
    BY <1>1, <1>4, <1>8, <1>10
  <1>13. (ledgerCursor <= ledger /\ DealtUpTo(ledgerCursor))'
    <2>1. ledgerCursor' = ledgerCursor /\ ledgerCursor' <= ledger'
      BY <1>1, <1>4
    <2>2. ASSUME NEW e \in DOMAIN contractLog', contractLog'[e].ledger <= ledgerCursor' PROVE Dealt(e)'
      <3>1. e \in DOMAIN contractLog /\ contractLog'[e] = contractLog[e]
        BY <1>1, <1>8, <2>1, <2>2
      <3> QED
        BY <1>1, <1>9, <2>1, <2>2, <3>1 DEF DealtUpTo
    <2> QED
      BY <2>1, <2>2 DEF DealtUpTo
  <1>14. ASSUME NEW r \in CycleRow, CycleFits(r) PROVE CycleFits(r)'
    <2>1. r.last \in Nat /\ r.seen \in Nat /\ r.after \in Nat /\ r.todo \in SUBSET Nat
      BY <1>14 DEF CycleRow
    <2> SUFFICES ASSUME r.pc # "idle"
                 PROVE  /\ r.last <= ledger' /\ r.seen <= ledger' /\ r.after <= Len(contractLog')
                        /\ \A e \in DOMAIN contractLog' :
                              contractLog'[e].ledger <= r.last \/ e <= r.after => Dealt(e)'
                        /\ r.pc = "apply" =>
                              /\ r.todo \subseteq Ahead(r)'
                              /\ \A e \in Ahead(r)' \ r.todo, d \in r.todo : d < e
                              /\ ~r.full => \A e \in Ahead(r)' :
                                                contractLog'[e].ledger <= r.seen => e \in r.todo
                        /\ r.pc = "save" => \A e \in Ahead(r)' : contractLog'[e].ledger > r.seen
      BY DEF CycleFits
    <2>2. r.last <= ledger /\ r.seen <= ledger /\ r.after <= n
      BY <1>7, <1>14 DEF CycleFits
    <2>3. r.last <= ledger' /\ r.seen <= ledger' /\ r.after <= Len(contractLog')
      BY <1>1, <1>4, <1>8, <2>1, <2>2
    <2>4. \A e \in DOMAIN contractLog' :
             contractLog'[e].ledger <= r.last \/ e <= r.after => Dealt(e)'
      <3> SUFFICES ASSUME NEW e \in DOMAIN contractLog',
                          contractLog'[e].ledger <= r.last \/ e <= r.after
                   PROVE  Dealt(e)'
        OBVIOUS
      <3>1. e \in DOMAIN contractLog /\ contractLog'[e] = contractLog[e]
        BY <1>1, <1>8, <2>1, <2>2
      <3>2. Dealt(e)
        BY <1>14, <3>1 DEF CycleFits
      <3> QED
        BY <1>9, <3>1, <3>2
    <2>5. \A e \in Ahead(r)' :
             \/ e \in Ahead(r) /\ contractLog'[e] = contractLog[e]
             \/ e \in Nat /\ e > n /\ contractLog'[e].ledger = ledger + 1
      <3> SUFFICES ASSUME NEW e \in Ahead(r)'
                   PROVE  \/ e \in Ahead(r) /\ contractLog'[e] = contractLog[e]
                          \/ e \in Nat /\ e > n /\ contractLog'[e].ledger = ledger + 1
        OBVIOUS
      <3>1. e \in DOMAIN contractLog' /\ e > r.after /\ contractLog'[e].ledger > r.last
        BY DEF Ahead, StartsAfter
      <3>2. CASE e \in DOMAIN contractLog /\ contractLog'[e] = contractLog[e]
        BY <3>1, <3>2 DEF Ahead, StartsAfter
      <3> QED
        BY <1>8, <3>1, <3>2
    <2>6. Ahead(r) \subseteq Ahead(r)'
      BY <1>1, <1>4, <1>5, <1>7 DEF Ahead, StartsAfter
    <2>7. \A e \in Ahead(r) : e \in Nat /\ e <= n
      BY <1>7 DEF Ahead
    <2>8. ASSUME r.pc = "apply"
          PROVE  /\ r.todo \subseteq Ahead(r)'
                 /\ \A e \in Ahead(r)' \ r.todo, d \in r.todo : d < e
                 /\ ~r.full => \A e \in Ahead(r)' :
                                   contractLog'[e].ledger <= r.seen => e \in r.todo
      <3>1. /\ r.todo \subseteq Ahead(r)
            /\ \A e \in Ahead(r) \ r.todo, d \in r.todo : d < e
            /\ ~r.full => \A e \in Ahead(r) : contractLog[e].ledger <= r.seen => e \in r.todo
        BY <1>14, <2>8 DEF CycleFits
      <3>2. \A e \in Ahead(r)' \ r.todo, d \in r.todo : d < e
        <4> SUFFICES ASSUME NEW e \in Ahead(r)' \ r.todo, NEW d \in r.todo PROVE d < e
          OBVIOUS
        <4>1. CASE e \in Ahead(r)
          BY <3>1, <4>1
        <4>2. CASE e \in Nat /\ e > n
          <5>1. d \in Nat /\ d <= n
            BY <2>7, <3>1
          <5> QED
            BY <4>2, <5>1
        <4> QED
          BY <2>5, <4>1, <4>2
      <3>3. ~r.full => \A e \in Ahead(r)' : contractLog'[e].ledger <= r.seen => e \in r.todo
        BY <1>1, <2>1, <2>2, <2>5, <3>1
      <3> QED
        BY <2>6, <3>1, <3>2, <3>3
    <2>9. r.pc = "save" => \A e \in Ahead(r)' : contractLog'[e].ledger > r.seen
      <3>1. r.pc = "save" => \A e \in Ahead(r) : contractLog[e].ledger > r.seen
        BY <1>14 DEF CycleFits
      <3> QED
        BY <1>1, <2>1, <2>2, <2>5, <3>1
    <2> QED
      BY <2>3, <2>4, <2>8, <2>9
  <1>15. (\A i \in Indexers : CycleFits(cycle[i]))'
    <2> SUFFICES ASSUME NEW i \in Indexers PROVE CycleFits(cycle[i])'
      OBVIOUS
    <2>1. PICK r \in CycleRow : r = cycle[i]
      BY <1>1
    <2>2. CycleFits(r)'
      BY <1>14, <2>1 DEF IndexInv
    <2>3. r = cycle'[i]
      BY <1>4, <2>1
    <2> QED
      BY ONLY <2>2, <2>3 DEF CycleFits, Ahead, StartsAfter, Dealt
  <1> QED
    BY <1>11, <1>12, <1>13, <1>15 DEF IndexInv

\* The page a poll fetches, and what an empty or a short one says.
LEMMA PageFetched ==
  ASSUME IndexInv, NEW i \in Indexers, FetchPage(i)
  PROVE  \E r : CycleMove(i, r)
  <1>1. PICK c \in CycleRow : c = cycle[i]
    BY DEF IndexInv, IndexTypes
  <1>2. /\ c.pc = "fetch" /\ c.last \in Nat /\ c.seen \in Nat /\ c.after \in Nat
        /\ ledger \in Nat /\ ledgerCursor \in Nat /\ cycle \in [Indexers -> CycleRow]
        /\ ledgerCursor <= ledger
    BY <1>1 DEF FetchPage, IndexInv, IndexTypes, CycleRow
  <1>3. CycleFits(c)
    BY <1>1 DEF IndexInv
  <1>4. PICK page : page = PageOf(Ahead(c))
    OBVIOUS
  <1>5. Unread(i) = Ahead(c)
    BY <1>1 DEF Unread, Ahead
  <1>6. PICK r : r = [c EXCEPT !.pc = IF page = {} THEN "save" ELSE "apply",
                               !.seen = IF c.seen < ledger THEN ledger ELSE c.seen,
                               !.todo = page,
                               !.full = Cardinality(page) = IndexPage]
    OBVIOUS
  <1>7. cycle' = [cycle EXCEPT ![i] = r] /\ UNCHANGED <<contractLog, ledger, ledgerCursor, handled>>
    BY <1>1, <1>2, <1>4, <1>5, <1>6 DEF FetchPage
  <1>8. PICK n \in Nat : DOMAIN contractLog = 1 .. n
    BY DEF IndexInv, IndexTypes
  <1>9. Ahead(c) \in SUBSET (1 .. n)
    BY <1>8 DEF Ahead
  <1>10. /\ page \subseteq Ahead(c)
         /\ \A e \in Ahead(c) \ page, d \in page : d < e
         /\ page = {} => Ahead(c) = {}
         /\ Cardinality(page) # IndexPage => page = Ahead(c)
    BY <1>4, <1>8, <1>9, PageHoldsFirst
  <1>11. /\ r.pc = (IF page = {} THEN "save" ELSE "apply")
         /\ r.seen = (IF c.seen < ledger THEN ledger ELSE c.seen)
         /\ r.todo = page /\ r.full = (Cardinality(page) = IndexPage)
         /\ r.last = c.last /\ r.after = c.after
    BY <1>6 DEF CycleRow
  <1>12. page \in SUBSET Nat
    BY <1>9, <1>10
  <1>13. r \in CycleRow
    BY <1>2, <1>6, <1>11, <1>12 DEF CycleRow, CyclePcs
  <1>14. Ahead(r) = Ahead(c)
    BY <1>11 DEF Ahead
  <1>15. CycleFits(r)
    <2>1. /\ c.last <= ledger /\ c.seen <= ledger /\ c.after <= Len(contractLog)
          /\ \A e \in DOMAIN contractLog : contractLog[e].ledger <= c.last \/ e <= c.after => Dealt(e)
      BY <1>2, <1>3 DEF CycleFits
    <2>2. r.seen <= ledger
      BY <1>2, <1>11, <2>1
    <2>3. ~r.full => \A e \in Ahead(c) : e \in r.todo
      BY <1>10, <1>11
    <2>4. r.pc = "save" => Ahead(c) = {}
      BY <1>10, <1>11
    <2>5. r.todo \subseteq Ahead(r) /\ \A e \in Ahead(r) \ r.todo, d \in r.todo : d < e
      BY <1>10, <1>11, <1>14
    <2> QED
      BY <1>11, <1>14, <2>1, <2>2, <2>3, <2>4, <2>5 DEF CycleFits
  <1>16. CycleFits(r)'
    BY <1>7, <1>15, FitsGrow
  <1>17. DealtUpTo(ledgerCursor)'
    BY <1>7 DEF IndexInv, DealtUpTo, Dealt
  <1> QED
    BY <1>2, <1>7, <1>13, <1>16, <1>17 DEF CycleMove

\* The event a poll shifts past is dealt with, and so is all before it.
LEMMA EventShifted ==
  ASSUME IndexInv, NEW i \in Indexers, SkipEvent(i) \/ HandleEvent(i)
  PROVE  \E r : CycleMove(i, r)
  <1>1. PICK c \in CycleRow : c = cycle[i]
    BY DEF IndexInv, IndexTypes
  <1>2. /\ c.pc = "apply" /\ c.todo # {}
        /\ Shift(i) /\ UNCHANGED <<contractLog, ledger, ledgerCursor>>
        /\ \/ handled' = handled /\ contractLog[NextEvent(i)].kind = "other"
           \/ handled' = handled \cup {NextEvent(i)}
    BY <1>1 DEF SkipEvent, HandleEvent
  <1>3. /\ c.last \in Nat /\ c.seen \in Nat /\ c.after \in Nat /\ c.todo \in SUBSET Nat
        /\ ledger \in Nat /\ ledgerCursor \in Nat /\ cycle \in [Indexers -> CycleRow]
        /\ ledgerCursor <= ledger
    BY <1>1 DEF IndexInv, IndexTypes, CycleRow
  <1>4. CycleFits(c)
    BY <1>1 DEF IndexInv
  <1>5. PICK e : e = NextEvent(i)
    OBVIOUS
  <1>6. e \in c.todo /\ \A d \in c.todo : e <= d
    BY <1>1, <1>2, <1>3, <1>5, MinIsLeast DEF NextEvent
  <1>7. PICK r : r = [c EXCEPT !.after = e, !.todo = c.todo \ {e}]
    OBVIOUS
  <1>8. cycle' = [cycle EXCEPT ![i] = r]
    BY <1>1, <1>2, <1>3, <1>5, <1>7 DEF Shift
  <1>9. r.after = e /\ r.todo = c.todo \ {e} /\ r.pc = c.pc /\ r.last = c.last /\ r.seen = c.seen /\ r.full = c.full
    BY <1>7 DEF CycleRow
  <1>10. r \in CycleRow
    BY <1>3, <1>6, <1>7 DEF CycleRow
  <1>11. PICK n \in Nat : n = Len(contractLog) /\ DOMAIN contractLog = 1 .. n
    BY DEF IndexInv, IndexTypes
  <1>12. /\ c.last <= ledger /\ c.seen <= ledger /\ c.after <= n
         /\ \A d \in DOMAIN contractLog : contractLog[d].ledger <= c.last \/ d <= c.after => Dealt(d)
         /\ c.todo \subseteq Ahead(c)
         /\ \A d \in Ahead(c) \ c.todo, f \in c.todo : f < d
         /\ ~c.full => \A d \in Ahead(c) : contractLog[d].ledger <= c.seen => d \in c.todo
    BY <1>2, <1>4, <1>11 DEF CycleFits
  <1>13. e \in DOMAIN contractLog /\ e \in Nat /\ e <= n /\ e > c.after /\ contractLog[e].ledger > c.last
    BY <1>6, <1>11, <1>12 DEF Ahead, StartsAfter
  <1>14. handled \subseteq handled' /\ Dealt(e)' /\ \A d : Dealt(d) => Dealt(d)'
    BY <1>2, <1>5 DEF Dealt
  <1>15. Ahead(r) = {d \in Ahead(c) : d > e}
    <2>1. \A d \in DOMAIN contractLog : d > e => d > c.after
      BY <1>3, <1>11, <1>13
    <2> QED
      BY <1>9, <2>1 DEF Ahead
  <1>16. \A d \in DOMAIN contractLog : contractLog[d].ledger <= r.last \/ d <= r.after => Dealt(d)'
    <2> SUFFICES ASSUME NEW d \in DOMAIN contractLog, contractLog[d].ledger <= r.last \/ d <= r.after,
                        ~(contractLog[d].ledger <= c.last \/ d <= c.after)
                 PROVE  Dealt(d)'
      BY <1>12, <1>14
    <2>1. d \in Int /\ d <= e
      BY <1>9, <1>11
    <2>2. d \in Ahead(c)
      <3>1. contractLog[d].ledger \in Nat
        <4>1. contractLog[d] \in LogRow
          BY <1>11, ElementOfSeq DEF IndexInv, IndexTypes
        <4> QED
          BY <4>1 DEF LogRow
      <3>2. contractLog[d].ledger > c.last /\ d > c.after
        BY <1>3, <2>1, <3>1
      <3> QED
        BY <3>2 DEF Ahead, StartsAfter
    <2>3. d = e
      <3>1. d \in c.todo
        <4> SUFFICES ASSUME d \notin c.todo PROVE FALSE
          OBVIOUS
        <4>1. e < d
          BY <1>6, <1>12, <2>2
        <4> QED
          BY <1>13, <2>1, <4>1
      <3> QED
        BY <1>6, <1>13, <2>1, <3>1
    <2> QED
      BY <1>14, <2>3
  <1>17. c.todo \ {e} \subseteq Ahead(r)
    <2> SUFFICES ASSUME NEW d \in c.todo, d # e PROVE d \in Ahead(c) /\ d > e
      BY <1>15
    <2>1. d \in Nat /\ e <= d
      BY <1>3, <1>6
    <2> QED
      BY <1>12, <1>13, <2>1
  <1>18. \A d \in Ahead(r) \ r.todo, f \in r.todo : f < d
    <2> SUFFICES ASSUME NEW d \in Ahead(r) \ r.todo, NEW f \in r.todo PROVE f < d
      OBVIOUS
    <2>1. d \in Ahead(c) /\ d > e /\ f \in c.todo
      BY <1>9, <1>15
    <2>2. d # e
      BY <1>13, <2>1
    <2> QED
      BY <1>9, <1>12, <2>1, <2>2
  <1>19. ~r.full => \A d \in Ahead(r) : contractLog[d].ledger <= r.seen => d \in r.todo
    <2> SUFFICES ASSUME ~c.full, NEW d \in Ahead(r), contractLog[d].ledger <= c.seen PROVE d \in r.todo
      BY <1>9
    <2>1. d \in Ahead(c) /\ d > e
      BY <1>15
    <2>2. d # e
      BY <1>13, <2>1
    <2> QED
      BY <1>9, <1>12, <2>1, <2>2
  <1>20. CycleFits(r)'
    <2>1. Ahead(r)' = Ahead(r)
      BY <1>2 DEF Ahead, StartsAfter
    <2>2. r.pc = "apply" /\ r.last <= ledger /\ r.seen <= ledger /\ r.after <= Len(contractLog)
      BY <1>2, <1>9, <1>11, <1>12, <1>13
    <2> QED
      BY <1>2, <1>9, <1>16, <1>17, <1>18, <1>19, <2>1, <2>2 DEF CycleFits
  <1>21. DealtUpTo(ledgerCursor)'
    BY <1>2, <1>14 DEF IndexInv, DealtUpTo
  <1> QED
    BY <1>2, <1>3, <1>8, <1>10, <1>14, <1>20, <1>21 DEF CycleMove

\* A poll that ends saves a ledger up to which all is dealt with.
LEMMA CursorSaved ==
  ASSUME IndexInv, NEW i \in Indexers, SaveCursor(i)
  PROVE  CycleMove(i, IdleCycle)
  <1>1. PICK c \in CycleRow : c = cycle[i]
    BY DEF IndexInv, IndexTypes
  <1>2. /\ c.pc = "save" /\ ledgerCursor' = IF c.seen > c.last THEN c.seen ELSE ledgerCursor
        /\ cycle' = [cycle EXCEPT ![i] = IdleCycle] /\ UNCHANGED <<contractLog, ledger, handled>>
    BY <1>1 DEF SaveCursor
  <1>3. /\ c.last \in Nat /\ c.seen \in Nat /\ c.after \in Nat
        /\ ledger \in Nat /\ ledgerCursor \in Nat /\ ledgerCursor <= ledger
    BY <1>1 DEF IndexInv, IndexTypes, CycleRow
  <1>4. /\ c.seen <= ledger
        /\ \A e \in DOMAIN contractLog : contractLog[e].ledger <= c.last \/ e <= c.after => Dealt(e)
        /\ \A e \in Ahead(c) : contractLog[e].ledger > c.seen
    BY <1>1, <1>2 DEF IndexInv, CycleFits
  <1>5. DealtUpTo(c.seen)
    <2> SUFFICES ASSUME NEW e \in DOMAIN contractLog, contractLog[e].ledger <= c.seen PROVE Dealt(e)
      BY DEF DealtUpTo
    <2>1. contractLog[e] \in LogRow /\ e \in Int
      BY ElementOfSeq DEF IndexInv, IndexTypes
    <2>2. contractLog[e].ledger \in Nat
      BY <2>1 DEF LogRow
    <2>3. e \notin Ahead(c)
      BY <1>3, <1>4, <2>2
    <2>4. contractLog[e].ledger <= c.last \/ e <= c.after
      BY <1>3, <2>1, <2>2, <2>3 DEF Ahead, StartsAfter
    <2> QED
      BY <1>4, <2>4
  <1>6. DealtUpTo(ledgerCursor)
    BY DEF IndexInv
  <1>7. ledgerCursor' \in Nat /\ ledgerCursor' <= ledger /\ DealtUpTo(ledgerCursor)'
    <2>1. CASE ledgerCursor' = c.seen
      BY <1>2, <1>3, <1>4, <1>5, <2>1 DEF DealtUpTo, Dealt
    <2>2. CASE ledgerCursor' = ledgerCursor
      BY <1>2, <1>3, <1>6, <2>2 DEF DealtUpTo, Dealt
    <2> QED
      BY <1>2, <2>1, <2>2
  <1>8. IdleCycle \in CycleRow /\ CycleFits(IdleCycle)'
    BY DEF IdleCycle, CycleRow, CyclePcs, CycleFits
  <1> QED
    BY <1>2, <1>7, <1>8 DEF CycleMove

\* Every step of the indexer keeps it.
LEMMA IndexInvStep ==
  ASSUME IndexInv, [IndexNext]_indexVars
  PROVE  IndexInv'
  <1>1. CASE UNCHANGED indexVars
    BY <1>1 DEF indexVars, IndexInv, IndexTypes, DealtUpTo, Dealt, CycleFits, Ahead, StartsAfter
  <1>2. ASSUME NEW block \in Blocks, CloseBlock(block) PROVE IndexInv'
    BY <1>2, BlockCloses
  <1>3. ASSUME NEW i \in Indexers, IndexStep(i) \/ PollFails(i) PROVE IndexInv'
    <2>1. PICK c \in CycleRow : c = cycle[i]
      BY DEF IndexInv, IndexTypes
    <2>2. /\ c.last \in Nat /\ c.seen \in Nat /\ c.after \in Nat /\ c.todo \in SUBSET Nat
          /\ ledger \in Nat /\ ledgerCursor \in Nat /\ cycle \in [Indexers -> CycleRow]
          /\ ledgerCursor <= ledger /\ DealtUpTo(ledgerCursor) /\ CycleFits(c)
      BY <2>1 DEF IndexInv, IndexTypes, CycleRow
    <2>3. ASSUME UNCHANGED <<contractLog, ledger, ledgerCursor, handled>>
          PROVE  /\ UNCHANGED <<contractLog, ledger>> /\ handled \subseteq handled'
                 /\ ledgerCursor' \in Nat /\ ledgerCursor' <= ledger /\ DealtUpTo(ledgerCursor)'
      BY <2>2, <2>3 DEF DealtUpTo, Dealt
    <2>4. CASE PollStart(i)
      <3>1. PICK r : r = [IdleCycle EXCEPT !.pc = "fetch", !.last = ledgerCursor, !.seen = ledgerCursor]
        OBVIOUS
      <3>2. cycle' = [cycle EXCEPT ![i] = r] /\ UNCHANGED <<contractLog, ledger, ledgerCursor, handled>>
        BY <2>4, <3>1 DEF PollStart
      <3>3. r = [pc |-> "fetch", last |-> ledgerCursor, seen |-> ledgerCursor, after |-> 0, todo |-> {}, full |-> FALSE]
        BY <3>1 DEF IdleCycle
      <3>4. r \in CycleRow
        BY <2>2, <3>3 DEF CycleRow, CyclePcs
      <3>5. CycleFits(r)
        <4>1. 0 <= Len(contractLog) /\ \A e \in DOMAIN contractLog : ~(e <= 0)
          BY DEF IndexInv, IndexTypes
        <4> QED
          BY <2>2, <3>3, <4>1 DEF CycleFits, DealtUpTo
      <3>6. CycleFits(r)'
        BY <3>2, <3>5, FitsGrow
      <3>7. CycleMove(i, r)
        BY <2>3, <3>2, <3>4, <3>6 DEF CycleMove
      <3> QED
        BY <3>7, CycleMoves
    <2>5. CASE FetchPage(i)
      BY <2>5, PageFetched, CycleMoves
    <2>6. CASE SkipEvent(i) \/ HandleEvent(i)
      BY <2>6, EventShifted, CycleMoves
    <2>7. CASE PageDone(i)
      <3>1. PICK r : r = [c EXCEPT !.pc = IF c.full THEN "fetch" ELSE "save"]
        OBVIOUS
      <3>2. /\ c.pc = "apply" /\ c.todo = {} /\ cycle' = [cycle EXCEPT ![i] = r]
            /\ UNCHANGED <<contractLog, ledger, ledgerCursor, handled>>
        BY <2>1, <2>2, <2>7, <3>1 DEF PageDone
      <3>3. /\ r.pc = (IF c.full THEN "fetch" ELSE "save") /\ r.last = c.last /\ r.seen = c.seen
            /\ r.after = c.after /\ r.todo = c.todo /\ r.full = c.full
        BY <3>1 DEF CycleRow
      <3>4. r \in CycleRow
        BY <3>1, <3>3 DEF CycleRow, CyclePcs
      <3>5. CycleFits(r)
        <4>1. Ahead(r) = Ahead(c)
          BY <3>3 DEF Ahead
        <4>2. ~c.full => \A e \in Ahead(c) : contractLog[e].ledger <= c.seen => e \in c.todo
          BY <2>2, <3>2 DEF CycleFits
        <4>3. ~c.full => \A e \in Ahead(c) : contractLog[e].ledger > c.seen
          <5> SUFFICES ASSUME ~c.full, NEW e \in Ahead(c) PROVE contractLog[e].ledger > c.seen
            OBVIOUS
          <5>1. contractLog[e] \in LogRow
            BY ElementOfSeq DEF IndexInv, IndexTypes, Ahead
          <5>2. contractLog[e].ledger \in Nat
            BY <5>1 DEF LogRow
          <5> QED
            BY <2>2, <3>2, <4>2, <5>2
        <4>4. /\ c.last <= ledger /\ c.seen <= ledger /\ c.after <= Len(contractLog)
              /\ \A e \in DOMAIN contractLog : contractLog[e].ledger <= c.last \/ e <= c.after => Dealt(e)
          BY <2>2, <3>2 DEF CycleFits
        <4> QED
          BY <3>3, <4>1, <4>3, <4>4 DEF CycleFits
      <3>6. CycleFits(r)'
        BY <3>2, <3>5, FitsGrow
      <3>7. CycleMove(i, r)
        BY <2>3, <3>2, <3>4, <3>6 DEF CycleMove
      <3> QED
        BY <3>7, CycleMoves
    <2>8. CASE SaveCursor(i)
      BY <2>8, CursorSaved, CycleMoves
    <2>9. CASE PollFails(i)
      <3>1. cycle' = [cycle EXCEPT ![i] = IdleCycle] /\ UNCHANGED <<contractLog, ledger, ledgerCursor, handled>>
        BY <2>9 DEF PollFails
      <3>2. IdleCycle \in CycleRow /\ CycleFits(IdleCycle)'
        BY DEF IdleCycle, CycleRow, CyclePcs, CycleFits
      <3>3. CycleMove(i, IdleCycle)
        BY <2>3, <3>1, <3>2 DEF CycleMove
      <3> QED
        BY <3>3, CycleMoves
    <2> QED
      BY <1>3, <2>4, <2>5, <2>6, <2>7, <2>8, <2>9 DEF IndexStep
  <1>4. CASE CursorLost
    <2>1. ledgerCursor' = 0 /\ UNCHANGED <<contractLog, ledger, cycle, handled>>
      BY <1>4 DEF CursorLost
    <2>2. ledgerCursor \in Nat /\ ledgerCursor > 0 /\ ledger \in Nat /\ ledgerCursor <= ledger
      BY <1>4 DEF CursorLost, IndexInv, IndexTypes
    <2>3. DealtUpTo(0)
      <3> SUFFICES ASSUME NEW e \in DOMAIN contractLog, contractLog[e].ledger <= 0 PROVE Dealt(e)
        BY DEF DealtUpTo
      <3>1. contractLog[e] \in LogRow
        BY ElementOfSeq DEF IndexInv, IndexTypes
      <3>2. contractLog[e].ledger <= ledgerCursor
        BY <2>2, <3>1 DEF LogRow
      <3> QED
        BY <3>2 DEF IndexInv, DealtUpTo
    <2> QED
      BY <2>1, <2>2, <2>3 DEF IndexInv, IndexTypes, DealtUpTo, Dealt, CycleFits, Ahead, StartsAfter
  <1> QED
    BY <1>1, <1>2, <1>3, <1>4 DEF IndexNext

\* It says more than NothingSkipped.
LEMMA IndexKept ==
  ASSUME IndexInv PROVE NothingSkipped
BY DEF IndexInv, DealtUpTo, Dealt, NothingSkipped
--------------------------------------------------------------------------------
(* Webhooks                                                                *)

HookRow == [exists : BOOLEAN, isActive : BOOLEAN, failureCount : Nat]
DeliveryPcs ==
    {"none", "queued", "succeeded", "failed", "markSuccess", "markFailure", "retry", "done", "lost"}
DeliveryRow == [pc : DeliveryPcs, attempt : Nat, loaded : HookRow]

HookTypes ==
    /\ hook \in [Webhooks -> HookRow]
    /\ delivery \in [Deliveries -> DeliveryRow]
    /\ hookFaults \in Nat
    /\ posts \in [Deliveries -> Nat]
    /\ hookFailures \in [Webhooks -> Nat]

\* The deliveries of a webhook whose failure is counted and not yet in its row.
OwesFailure(r) == r.pc \in {"failed", "markFailure"}
Pending(w) == {e \in HookEvents : OwesFailure(delivery[<<w, e>>])}

\* A row of w counts no failure that is still to be written, and is inactive
\* after enough of them only.
RowCounts(w, row) ==
    /\ row.failureCount + Cardinality(Pending(w)) <= hookFailures[w]
    /\ row.exists /\ ~row.isActive => hookFailures[w] >= DeactivateAt

\* An attempt that is queued was not posted yet.
PostsFit(d) ==
    /\ posts[d] + (IF delivery[d].pc = "queued" THEN 1 ELSE 0) <= delivery[d].attempt + hookFaults
    /\ delivery[d].pc = "none" => posts[d] = 0
    /\ delivery[d].attempt <= ScheduleLength

HookInv ==
    /\ HookTypes
    /\ \A w \in Webhooks : IsFiniteSet(Pending(w)) /\ RowCounts(w, hook[w])
    /\ \A d \in Deliveries : PostsFit(d) /\ RowCounts(d[1], delivery[d].loaded)

\* How the pending failures change with one delivery.
LEMMA PendingMoves ==
  ASSUME HookInv, NEW w \in Webhooks, NEW e \in HookEvents, NEW r,
         delivery' = [delivery EXCEPT ![<<w, e>>] = r]
  PROVE  /\ \A v \in Webhooks : v # w => Pending(v)' = Pending(v)
         /\ IsFiniteSet(Pending(w)')
         /\ Cardinality(Pending(w)) \in Nat /\ Cardinality(Pending(w)') \in Nat
         /\ Cardinality(Pending(w)') = Cardinality(Pending(w))
                - (IF OwesFailure(delivery[<<w, e>>]) THEN 1 ELSE 0)
                + (IF OwesFailure(r) THEN 1 ELSE 0)
  <1>1. \A v \in Webhooks, f \in HookEvents :
           delivery'[<<v, f>>] = IF v = w /\ f = e THEN r ELSE delivery[<<v, f>>]
    BY DEF HookInv, HookTypes, Deliveries
  <1>2. \A v \in Webhooks : v # w => Pending(v)' = Pending(v)
    BY <1>1 DEF Pending
  <1>3. Pending(w)' = IF OwesFailure(r) THEN Pending(w) \cup {e} ELSE Pending(w) \ {e}
    BY <1>1 DEF Pending
  <1>4. e \in Pending(w) <=> OwesFailure(delivery[<<w, e>>])
    BY DEF Pending
  <1>5. IsFiniteSet(Pending(w)) /\ Cardinality(Pending(w)) \in Nat
    BY FS_CardinalityType DEF HookInv
  <1>6. CASE OwesFailure(r)
    <2>1. Pending(w)' = Pending(w) \cup {e}
      BY <1>3, <1>6
    <2> QED
      BY <1>2, <1>4, <1>5, <1>6, <2>1, FS_AddElement
  <1>7. CASE ~OwesFailure(r)
    <2>1. Pending(w)' = Pending(w) \ {e}
      BY <1>3, <1>7
    <2>2. CASE e \in Pending(w)
      <3>1. /\ IsFiniteSet(Pending(w) \ {e})
            /\ Cardinality(Pending(w) \ {e}) = Cardinality(Pending(w)) - 1
        BY <1>5, <2>2, FS_RemoveElement
      <3>2. Cardinality(Pending(w) \ {e}) \in Nat
        BY <3>1, FS_CardinalityType
      <3> QED
        BY <1>2, <1>4, <1>5, <1>7, <2>1, <2>2, <3>1, <3>2
    <2>3. CASE e \notin Pending(w)
      <3>1. Pending(w) \ {e} = Pending(w)
        BY <2>3
      <3> QED
        <4>1. PICK k \in Nat : k = Cardinality(Pending(w))
          BY <1>5
        <4>2. Pending(w)' = Pending(w) /\ ~OwesFailure(delivery[<<w, e>>])
          BY <1>4, <2>1, <2>3, <3>1
        <4>3. Cardinality(Pending(w)') = k /\ k = k - 0 + 0
          BY <4>1, <4>2
        <4> QED
          BY <1>2, <1>5, <1>7, <4>1, <4>2, <4>3
    <2> QED
      BY <2>2, <2>3
  <1> QED
    BY <1>6, <1>7

\* What one delivery may do: its record becomes r, n failures more are counted
\* and the row of its webhook becomes row.
Moves(w, d, r, n, row) ==
    /\ r \in DeliveryRow /\ delivery' = [delivery EXCEPT ![d] = r]
    /\ n \in Nat /\ hookFailures' = [hookFailures EXCEPT ![w] = hookFailures[w] + n]
    /\ OwesFailure(r) => OwesFailure(delivery[d]) \/ n > 0
    /\ row \in HookRow /\ hook' = [hook EXCEPT ![w] = row]
    /\ row = hook[w] \/ RowCounts(w, row)'
    /\ r.loaded \in {NoHook, delivery[d].loaded, hook[w]}
    /\ hookFaults' \in Nat /\ hookFaults' >= hookFaults /\ posts' \in [Deliveries -> Nat]
    /\ \A f \in Deliveries : f # d => posts'[f] = posts[f]
    /\ PostsFit(d)'

\* Such a move keeps the invariant.
LEMMA HookMoves ==
  ASSUME HookInv, NEW w \in Webhooks, NEW d \in Deliveries, d[1] = w, NEW r, NEW n, NEW row,
         Moves(w, d, r, n, row)
  PROVE  HookInv'
  <1> PICK e \in HookEvents : d = <<w, e>>
    BY DEF Deliveries
  <1>m. /\ r \in DeliveryRow /\ delivery' = [delivery EXCEPT ![d] = r]
        /\ n \in Nat /\ hookFailures' = [hookFailures EXCEPT ![w] = hookFailures[w] + n]
        /\ OwesFailure(r) => OwesFailure(delivery[d]) \/ n > 0
        /\ row \in HookRow /\ hook' = [hook EXCEPT ![w] = row]
        /\ row = hook[w] \/ RowCounts(w, row)'
        /\ r.loaded \in {NoHook, delivery[d].loaded, hook[w]}
        /\ hookFaults' \in Nat /\ hookFaults' >= hookFaults /\ posts' \in [Deliveries -> Nat]
        /\ \A f \in Deliveries : f # d => posts'[f] = posts[f]
        /\ PostsFit(d)'
    BY DEF Moves
  <1> USE <1>m
  <1>1. d \in Deliveries /\ d[1] = w
    BY DEF Deliveries
  <1>2. /\ \A v \in Webhooks : v # w => Pending(v)' = Pending(v)
        /\ IsFiniteSet(Pending(w)')
        /\ Cardinality(Pending(w)) \in Nat /\ Cardinality(Pending(w)') \in Nat
        /\ Cardinality(Pending(w)') = Cardinality(Pending(w))
               - (IF OwesFailure(delivery[d]) THEN 1 ELSE 0) + (IF OwesFailure(r) THEN 1 ELSE 0)
    BY PendingMoves
  <1>3. /\ hook \in [Webhooks -> HookRow] /\ delivery \in [Deliveries -> DeliveryRow]
        /\ hookFailures \in [Webhooks -> Nat] /\ hookFaults \in Nat
    BY DEF HookInv, HookTypes
  <1>4. hookFailures'[w] = hookFailures[w] + n
    BY <1>3
  <1>5. \A x \in HookRow : RowCounts(w, x) => RowCounts(w, x)'
    <2> SUFFICES ASSUME NEW x \in HookRow, RowCounts(w, x) PROVE RowCounts(w, x)'
      OBVIOUS
    <2>1. hookFailures[w] \in Nat /\ x.failureCount \in Nat /\ DeactivateAt \in Nat
      BY <1>3, WebhookAssumption DEF HookRow, WebhookAssumption
    <2>2. x.failureCount + Cardinality(Pending(w)') <= hookFailures'[w]
      BY <1>2, <1>4, <2>1 DEF RowCounts
    <2>3. x.exists /\ ~x.isActive => hookFailures'[w] >= DeactivateAt
      BY <1>4, <2>1 DEF RowCounts
    <2> QED
      BY <2>2, <2>3 DEF RowCounts
  <1>6. \A v \in Webhooks, x \in HookRow : v # w /\ RowCounts(v, x) => RowCounts(v, x)'
    <2>1. \A v \in Webhooks : v # w => hookFailures'[v] = hookFailures[v]
      BY <1>3
    <2> QED
      BY <1>2, <2>1 DEF RowCounts
  <1>7. NoHook \in HookRow /\ RowCounts(w, NoHook)'
    <2>1. hookFailures[w] \in Nat /\ hook[w].failureCount \in Nat
      BY <1>3 DEF HookRow
    <2>2. hook[w].failureCount + Cardinality(Pending(w)) <= hookFailures[w]
      BY DEF HookInv, RowCounts
    <2>3. RowCounts(w, NoHook) /\ NoHook \in HookRow
      BY <1>2, <2>1, <2>2 DEF RowCounts, NoHook, HookRow
    <2> QED
      BY <1>5, <2>3
  <1>8. ASSUME NEW v \in Webhooks PROVE IsFiniteSet(Pending(v)') /\ RowCounts(v, hook[v])'
    <2>1. hook'[v] = (IF v = w THEN row ELSE hook[v]) /\ hook[v] \in HookRow /\ RowCounts(v, hook[v])
          /\ IsFiniteSet(Pending(v))
      BY <1>3 DEF HookInv
    <2>2. CASE v = w
      <3>1. RowCounts(w, row)'
        BY <1>5, <2>1, <2>2
      <3> QED
        BY <1>2, <2>1, <2>2, <3>1 DEF RowCounts
    <2>3. CASE v # w
      <3>1. RowCounts(v, hook[v]) => hook[v].failureCount + Cardinality(Pending(v)') <= hookFailures'[v]
        BY <1>2, <1>3, <2>3 DEF RowCounts
      <3>2. hookFailures'[v] = hookFailures[v]
        BY <1>3, <2>3
      <3> QED
        BY <1>2, <2>1, <2>3, <3>1, <3>2 DEF RowCounts
    <2> QED
      BY <2>2, <2>3
  <1>9. ASSUME NEW f \in Deliveries PROVE PostsFit(f)' /\ RowCounts(f[1], delivery[f].loaded)'
    <2>1. /\ delivery'[f] = (IF f = d THEN r ELSE delivery[f]) /\ delivery[f] \in DeliveryRow
          /\ RowCounts(f[1], delivery[f].loaded) /\ PostsFit(f) /\ f[1] \in Webhooks
          /\ delivery[f].loaded \in HookRow
      BY <1>1, <1>3 DEF HookInv, Deliveries, DeliveryRow
    <2>2. CASE f = d
      <3>1. RowCounts(w, r.loaded)'
        BY <1>1, <1>3, <1>5, <1>7, <2>1, <2>2 DEF HookInv
      <3> QED
        BY <1>1, <2>1, <2>2, <3>1 DEF RowCounts
    <2>3. CASE f # d
      <3>1. delivery'[f] = delivery[f] /\ posts'[f] = posts[f] /\ posts[f] \in Nat
            /\ delivery[f].attempt \in Nat
        BY <2>1, <2>3 DEF HookInv, HookTypes, DeliveryRow
      <3>2. PostsFit(f)'
        BY <1>3, <2>1, <3>1 DEF PostsFit
      <3>3. f[1] # w => /\ Cardinality(Pending(f[1])') = Cardinality(Pending(f[1]))
                        /\ hookFailures'[f[1]] = hookFailures[f[1]]
        BY <1>2, <1>3, <2>1
      <3>4. CASE f[1] = w
        <4>1. PICK x \in HookRow : x = delivery[f].loaded
          BY <2>1
        <4>2. RowCounts(w, x)'
          BY <1>5, <2>1, <3>4, <4>1
        <4> QED
          BY <3>1, <3>2, <3>4, <4>1, <4>2 DEF RowCounts
      <3>5. CASE f[1] # w
        BY <2>1, <3>1, <3>2, <3>3, <3>5 DEF RowCounts
      <3> QED
        BY <3>4, <3>5
    <2> QED
      BY <2>2, <2>3
  <1>10. HookTypes'
    BY <1>1, <1>3, <1>4 DEF HookTypes
  <1> QED
    BY <1>8, <1>9, <1>10 DEF HookInv

\* A step of a delivery that keeps its attempt.
Turned(d, to, l) == [pc |-> to, attempt |-> delivery[d].attempt, loaded |-> l]
Turns(d, to, l) == delivery' = [delivery EXCEPT ![d].pc = to, ![d].loaded = l]

\* Such a step changes the record of one delivery.
LEMMA StepMoves ==
  ASSUME HookTypes, NEW d \in Deliveries, NEW to \in DeliveryPcs, NEW l \in HookRow,
         Turns(d, to, l), NEW r, r = Turned(d, to, l)
  PROVE  /\ r \in DeliveryRow /\ delivery' = [delivery EXCEPT ![d] = r]
         /\ r.pc = to /\ r.attempt = delivery[d].attempt /\ r.loaded = l
  <1>1. delivery \in [Deliveries -> DeliveryRow] /\ delivery[d] \in DeliveryRow
    BY DEF HookTypes
  <1>2. r = [[delivery[d] EXCEPT !.pc = to] EXCEPT !.loaded = l]
    <2>1. /\ r = [pc |-> to, attempt |-> delivery[d].attempt, loaded |-> l]
          /\ DOMAIN r = {"pc", "attempt", "loaded"}
          /\ r.pc = to /\ r.attempt = delivery[d].attempt /\ r.loaded = l
      BY DEF Turned
    <2> QED
      BY <1>1, <2>1 DEF DeliveryRow
  <1>3. delivery' = [delivery EXCEPT ![d] = [[delivery[d] EXCEPT !.pc = to] EXCEPT !.loaded = l]]
    <2> PICK mid : mid = [delivery EXCEPT ![d].pc = to]
      OBVIOUS
    <2>1. /\ mid = [delivery EXCEPT ![d] = [delivery[d] EXCEPT !.pc = to]]
          /\ mid[d] = [delivery[d] EXCEPT !.pc = to] /\ DOMAIN mid = Deliveries
      BY <1>1
    <2>2. delivery' = [mid EXCEPT ![d] = [mid[d] EXCEPT !.loaded = l]]
      BY DEF Turns
    <2>3. delivery' = [mid EXCEPT ![d] = [[delivery[d] EXCEPT !.pc = to] EXCEPT !.loaded = l]]
      BY <2>1, <2>2
    <2> QED
      BY <1>1, <2>1, <2>3
  <1>4. r \in DeliveryRow
    BY <1>1 DEF DeliveryRow, Turned
  <1> QED
    BY <1>2, <1>3, <1>4 DEF Turned

\* A move that leaves the rows and the posts alone.
QuietMove(w, d, r, n) ==
    /\ r \in DeliveryRow /\ delivery' = [delivery EXCEPT ![d] = r]
    /\ n \in Nat /\ hookFailures' = [hookFailures EXCEPT ![w] = hookFailures[w] + n]
    /\ OwesFailure(r) => OwesFailure(delivery[d]) \/ n > 0
    /\ r.loaded \in {NoHook, delivery[d].loaded, hook[w]}
    /\ hookFaults' \in Nat /\ hookFaults' >= hookFaults /\ UNCHANGED <<hook, posts>>
    /\ posts[d] + (IF r.pc = "queued" THEN 1 ELSE 0) <= r.attempt + hookFaults'
    /\ r.pc # "none" /\ r.attempt <= ScheduleLength

\* Such a move keeps the invariant.
LEMMA QuietMoves ==
  ASSUME HookInv, NEW w \in Webhooks, NEW d \in Deliveries, d[1] = w, NEW r, NEW n,
         QuietMove(w, d, r, n)
  PROVE  HookInv'
  <1>1. /\ r \in DeliveryRow /\ delivery' = [delivery EXCEPT ![d] = r]
        /\ n \in Nat /\ hookFailures' = [hookFailures EXCEPT ![w] = hookFailures[w] + n]
        /\ OwesFailure(r) => OwesFailure(delivery[d]) \/ n > 0
        /\ r.loaded \in {NoHook, delivery[d].loaded, hook[w]}
        /\ hookFaults' \in Nat /\ hookFaults' >= hookFaults
        /\ UNCHANGED <<hook, posts>>
    BY DEF QuietMove
  <1>2. /\ hook \in [Webhooks -> HookRow] /\ delivery \in [Deliveries -> DeliveryRow]
        /\ posts \in [Deliveries -> Nat]
    BY DEF HookInv, HookTypes
  <1>3. hook[w] \in HookRow /\ hook' = [hook EXCEPT ![w] = hook[w]]
    BY <1>1, <1>2
  <1>4. posts' \in [Deliveries -> Nat] /\ \A f \in Deliveries : f # d => posts'[f] = posts[f]
    BY <1>1, <1>2
  <1>5. PostsFit(d)'
    <2>1. delivery'[d] = r /\ posts'[d] = posts[d]
      BY <1>1, <1>2
    <2> QED
      BY <2>1 DEF PostsFit, QuietMove
  <1>6. hook[w] = hook[w] \/ RowCounts(w, hook[w])'
    OBVIOUS
  <1>7. Moves(w, d, r, n, hook[w])
    BY ONLY <1>1, <1>3, <1>4, <1>5, <1>6 DEF Moves
  <1> QED
    BY <1>7, HookMoves

\* The processor, its database errors and its crashes.
LEMMA ProcessorKeeps ==
  ASSUME HookInv, NEW d \in Deliveries,
         ProcessorStep(d) \/ HookDatabaseFails(d) \/ WorkerDies(d)
  PROVE  HookInv'
  <1> PICK w \in Webhooks, e \in HookEvents : d = <<w, e>>
    BY DEF Deliveries
  <1>t. /\ hook \in [Webhooks -> HookRow] /\ delivery \in [Deliveries -> DeliveryRow]
        /\ hookFailures \in [Webhooks -> Nat] /\ hookFaults \in Nat /\ posts \in [Deliveries -> Nat]
        /\ hook[w] \in HookRow /\ delivery[d] \in DeliveryRow /\ delivery[d].loaded \in HookRow
        /\ delivery[d].attempt \in Nat /\ posts[d] \in Nat /\ hookFailures[w] \in Nat
        /\ d[1] = w /\ ScheduleLength \in Nat /\ ScheduleLength > 0 /\ DeactivateAt \in Nat
        /\ PostsFit(d) /\ RowCounts(w, hook[w]) /\ RowCounts(w, delivery[d].loaded)
    BY WebhookAssumption DEF HookInv, HookTypes, DeliveryRow, WebhookAssumption
  <1>n. NoHook \in HookRow
    BY DEF NoHook, HookRow
  <1>1. CASE Post(d)
    <2>0. PICK to \in {"succeeded", "failed"} : Step(d, "queued", to) /\ (to = "failed" =>
              hookFailures' = [hookFailures EXCEPT ![w] = hookFailures[w] + 1])
              /\ (to = "succeeded" => UNCHANGED hookFailures)
      BY <1>1, <1>t DEF Post
    <2> PICK r : r = Turned(d, to, NoHook)
      OBVIOUS
    <2>1. /\ r \in DeliveryRow /\ r.loaded = NoHook /\ r.attempt = delivery[d].attempt
          /\ r.pc = to /\ delivery[d].pc = "queued"
          /\ delivery' = [delivery EXCEPT ![d] = r]
      <3>1. /\ HookTypes /\ Turns(d, to, NoHook)
            /\ delivery[d].pc = "queued"
        BY <2>0 DEF HookInv, Step, Turns
      <3>2. /\ r \in DeliveryRow /\ delivery' = [delivery EXCEPT ![d] = r]
            /\ r.pc = to /\ r.attempt = delivery[d].attempt /\ r.loaded = NoHook
        <4>1. to \in DeliveryPcs
          BY DEF DeliveryPcs
        <4> QED
          BY <1>n, <3>1, <4>1, StepMoves
      <3> QED
        BY <3>1, <3>2
    <2>2. /\ posts' = [posts EXCEPT ![d] = posts[d] + 1] /\ UNCHANGED <<hook, hookFaults>>
          /\ hook' = [hook EXCEPT ![w] = hook[w]]
      BY <1>1, <1>t DEF Post
    <2>3. PICK n \in {0, 1} : /\ hookFailures' = [hookFailures EXCEPT ![w] = hookFailures[w] + n]
                              /\ r.pc = "failed" => n = 1
      <3>1. CASE to = "succeeded"
        BY <1>t, <2>0, <2>1, <3>1
      <3>2. CASE to = "failed"
        BY <2>0, <3>2
      <3> QED
        BY <2>0, <3>1, <3>2
    <2>4. PostsFit(d)'
      BY <1>t, <2>1, <2>2 DEF PostsFit
    <2>5. /\ posts' \in [Deliveries -> Nat] /\ \A f \in Deliveries : f # d => posts'[f] = posts[f]
          /\ hookFaults' \in Nat /\ hookFaults' >= hookFaults
      BY <1>t, <2>2
    <2>6. OwesFailure(r) => n > 0
      BY <2>1, <2>3 DEF OwesFailure
    <2>7. Moves(w, d, r, n, hook[w])
      <3>1. r \in DeliveryRow /\ delivery' = [delivery EXCEPT ![d] = r]
        BY <2>1
      <3>2. n \in Nat /\ hookFailures' = [hookFailures EXCEPT ![w] = hookFailures[w] + n]
        BY <2>3
      <3>3. hook[w] \in HookRow /\ hook' = [hook EXCEPT ![w] = hook[w]] 
        BY <1>t, <2>2
      <3>4. r.loaded \in {NoHook, delivery[d].loaded, hook[w]}
        BY <2>1
      <3> QED
        BY ONLY <3>1, <3>2, <3>3, <3>4, <2>4, <2>5, <2>6 DEF Moves
    <2> QED
      BY <2>7, HookMoves
  <1>2. ASSUME NEW from, NEW to, LoadHook(d, from, to),
               <<from, to>> \in {<<"succeeded", "markSuccess">>, <<"failed", "markFailure">>}
        PROVE  HookInv'
    <2> PICK r : r = [delivery[d] EXCEPT !.pc = to, !.loaded = hook[w]]
      OBVIOUS
    <2>1. /\ r \in DeliveryRow /\ r.loaded = hook[w] /\ r.attempt = delivery[d].attempt
          /\ r.pc = to /\ delivery' = [delivery EXCEPT ![d] = r]
      BY <1>2, <1>t DEF LoadHook, DeliveryRow, DeliveryPcs
    <2>2. hookFailures' = [hookFailures EXCEPT ![w] = hookFailures[w] + 0]
      BY <1>2, <1>t DEF LoadHook
    <2>3. /\ to \in {"markSuccess", "markFailure"} /\ delivery[d].pc = from /\ from # "queued"
          /\ OwesFailure(r) => OwesFailure(delivery[d])
          /\ UNCHANGED <<hook, hookFaults, posts>>
      BY <1>2, <2>1 DEF LoadHook, OwesFailure
    <2>4. /\ posts[d] <= delivery[d].attempt + hookFaults /\ delivery[d].attempt <= ScheduleLength
      BY <1>t, <2>3, <1>2 DEF PostsFit
    <2>9. QuietMove(w, d, r, 0)
      <3>1. r \in DeliveryRow /\ delivery' = [delivery EXCEPT ![d] = r]
        BY <2>1
      <3>2. 0 \in Nat /\ hookFailures' = [hookFailures EXCEPT ![w] = hookFailures[w] + 0]
        BY <2>2
      <3>3. OwesFailure(r) => OwesFailure(delivery[d]) \/ 0 > 0
        BY <2>3
      <3>4. r.loaded \in {NoHook, delivery[d].loaded, hook[w]}
        BY <2>1
      <3>5. hookFaults' \in Nat /\ hookFaults' >= hookFaults /\ UNCHANGED <<hook, posts>>
        BY <1>t, <2>3
      <3>6. posts[d] + (IF r.pc = "queued" THEN 1 ELSE 0) <= r.attempt + hookFaults'
        BY <1>t, <2>1, <2>3, <2>4
      <3>7. r.pc # "none" /\ r.attempt <= ScheduleLength
        BY <2>1, <2>3, <2>4
      <3> QED
        BY ONLY <3>1, <3>2, <3>3, <3>4, <3>5, <3>6, <3>7 DEF QuietMove
    <2> QED
      BY <1>t, <2>9, QuietMoves
  <1>3. CASE markWebhookSuccess(d) \/ markWebhookFailure(d)
    <2> PICK x : x = delivery[d].loaded
      OBVIOUS
    <2>0. PICK to \in {"done", "retry"} :
              /\ Step(d, IF to = "done" THEN "markSuccess" ELSE "markFailure", to)
              /\ to = "done" => markWebhookSuccess(d)
              /\ to = "retry" => markWebhookFailure(d)
      BY <1>3 DEF markWebhookSuccess, markWebhookFailure
    <2> PICK r : r = Turned(d, to, NoHook)
      OBVIOUS
    <2>1. /\ r \in DeliveryRow /\ r.loaded = NoHook /\ r.attempt = delivery[d].attempt
          /\ r.pc = to /\ delivery' = [delivery EXCEPT ![d] = r]
          /\ delivery[d].pc = IF r.pc = "done" THEN "markSuccess" ELSE "markFailure"
      <3>1. /\ HookTypes /\ Turns(d, to, NoHook)
            /\ delivery[d].pc = IF to = "done" THEN "markSuccess" ELSE "markFailure"
        BY <2>0 DEF HookInv, Step, Turns
      <3>2. /\ r \in DeliveryRow /\ delivery' = [delivery EXCEPT ![d] = r]
            /\ r.pc = to /\ r.attempt = delivery[d].attempt /\ r.loaded = NoHook
        <4>1. to \in DeliveryPcs
          BY DEF DeliveryPcs
        <4> QED
          BY <1>n, <3>1, <4>1, StepMoves
      <3> QED
        BY <3>1, <3>2
    <2>2. /\ hookFailures' = [hookFailures EXCEPT ![w] = hookFailures[w] + 0]
          /\ UNCHANGED <<hookFaults, posts>>
      BY <1>3, <1>t DEF markWebhookSuccess, markWebhookFailure
    <2>3. /\ ~OwesFailure(r) /\ (OwesFailure(delivery[d]) <=> r.pc = "retry")
          /\ Cardinality(Pending(w)) \in Nat /\ Cardinality(Pending(w)') \in Nat
          /\ Cardinality(Pending(w)') = Cardinality(Pending(w)) - (IF r.pc = "retry" THEN 1 ELSE 0)
      <3>1. ~OwesFailure(r) /\ (OwesFailure(delivery[d]) <=> r.pc = "retry")
        BY <2>1 DEF OwesFailure
      <3>2. /\ Cardinality(Pending(w)) \in Nat /\ Cardinality(Pending(w)') \in Nat
            /\ Cardinality(Pending(w)') = Cardinality(Pending(w))
                   - (IF OwesFailure(delivery[d]) THEN 1 ELSE 0) + (IF OwesFailure(r) THEN 1 ELSE 0)
        BY <2>1, PendingMoves
      <3> QED
        BY <3>1, <3>2
    <2>4. PICK row \in HookRow : /\ hook' = [hook EXCEPT ![w] = row]
                                 /\ row = hook[w] \/ RowCounts(w, row)'
      <3>1. CASE ~x.exists
        BY <1>3, <1>t, <3>1 DEF markWebhookSuccess, markWebhookFailure, SaveHook
      <3>2. CASE x.exists
        <4> PICK count : count = IF r.pc = "done" THEN 0 ELSE x.failureCount + 1
          OBVIOUS
        <4> PICK row : row = [exists |-> TRUE, failureCount |-> count,
                              isActive |-> IF r.pc = "retry" /\ count >= DeactivateAt THEN FALSE ELSE x.isActive]
          OBVIOUS
        <4>0. x \in [exists : BOOLEAN, isActive : BOOLEAN, failureCount : Nat]
          BY <1>t DEF HookRow
        <4>1. x.isActive \in BOOLEAN /\ x.failureCount \in Nat /\ x.exists
          BY <3>2, <4>0
        <4>2. row \in HookRow /\ count \in Nat
          <5>1. count \in Nat
            BY <4>1
          <5>2. row.isActive \in BOOLEAN
            BY <4>1
          <5> QED
            BY <5>1, <5>2 DEF HookRow
        <4>3. hook' = [hook EXCEPT ![w] = row]
          <5>1. CASE r.pc = "done"
            <6>0. /\ count = 0 /\ row.exists = TRUE /\ row.failureCount = 0 /\ row.isActive = x.isActive
                  /\ DOMAIN row = {"exists", "failureCount", "isActive"}
              BY <5>1
            <6>1. row = [x EXCEPT !.failureCount = 0]
              BY <4>0, <4>1, <6>0
            <6>2. hook' = [hook EXCEPT ![w] = [x EXCEPT !.failureCount = 0]]
              BY <1>t, <2>0, <2>1, <3>2, <5>1 DEF markWebhookSuccess, SaveHook
            <6> QED
              BY <6>1, <6>2
          <5>2. CASE r.pc = "retry"
            <6>1. count = x.failureCount + 1
              BY <5>2
            <6>2. hook' = [hook EXCEPT ![w] = [x EXCEPT !.failureCount = count,
                                                   !.isActive = IF count >= DeactivateAt THEN FALSE ELSE @]]
              BY <1>t, <2>0, <2>1, <3>2, <5>2, <6>1, ZenonT(30) DEF markWebhookFailure, SaveHook
            <6>3. row = [x EXCEPT !.failureCount = count,
                                  !.isActive = IF count >= DeactivateAt THEN FALSE ELSE @]
              <7>1. /\ row.exists = TRUE /\ row.failureCount = count
                    /\ row.isActive = (IF count >= DeactivateAt THEN FALSE ELSE x.isActive)
                    /\ DOMAIN row = {"exists", "failureCount", "isActive"}
                BY <5>2
              <7> QED
                BY <4>0, <4>1, <7>1, ZenonT(30)
            <6> QED
              BY <6>2, <6>3
          <5> QED
            BY <2>1, <5>1, <5>2
        <4>4. count + Cardinality(Pending(w)') <= hookFailures[w]
          BY <1>t, <2>1, <2>3, <4>1 DEF RowCounts
        <4>5. ~row.isActive => hookFailures[w] >= DeactivateAt
          BY <1>t, <2>1, <2>3, <3>2, <4>1, <4>2, <4>4 DEF RowCounts
        <4>6. hookFailures'[w] = hookFailures[w]
          BY <1>t, <2>2
        <4>7. RowCounts(w, row)'
          BY <4>4, <4>5, <4>6 DEF RowCounts
        <4> QED
          BY <4>2, <4>3, <4>7
      <3> QED
        BY <3>1, <3>2
    <2>5. PostsFit(d)'
      BY <1>t, <2>1, <2>2 DEF PostsFit
    <2>6. /\ posts' \in [Deliveries -> Nat] /\ \A f \in Deliveries : f # d => posts'[f] = posts[f]
          /\ hookFaults' \in Nat /\ hookFaults' >= hookFaults
      BY <1>t, <2>2
    <2>7. Moves(w, d, r, 0, row)
      BY <1>t, <2>1, <2>2, <2>3, <2>4, <2>5, <2>6 DEF Moves
    <2> QED
      BY <2>7, HookMoves
  <1>4. CASE Retry(d)
    <2> PICK r : r = delivery'[d]
      OBVIOUS
    <2>1. /\ r \in DeliveryRow /\ delivery' = [delivery EXCEPT ![d] = r] /\ ~OwesFailure(r)
          /\ r.loaded \in {NoHook, delivery[d].loaded}
          /\ \/ r.pc = "queued" /\ r.attempt = delivery[d].attempt + 1 /\ delivery[d].attempt < ScheduleLength
             \/ r.pc = "done" /\ r.attempt = delivery[d].attempt
          /\ delivery[d].pc = "retry"
      <3>1. CASE delivery[d].attempt < ScheduleLength
        <4>1. r = [NoDelivery EXCEPT !.pc = "queued", !.attempt = delivery[d].attempt + 1]
              /\ delivery[d].pc = "retry" /\ delivery' = [delivery EXCEPT ![d] = r]
          BY <1>4, <1>t, <3>1 DEF Retry
        <4>2. r = [pc |-> "queued", attempt |-> delivery[d].attempt + 1, loaded |-> NoHook]
          BY <4>1, <1>t DEF NoDelivery
        <4>3. /\ r.pc = "queued" /\ r.attempt = delivery[d].attempt + 1 /\ r.loaded = NoHook
              /\ "queued" \in DeliveryPcs /\ delivery[d].attempt + 1 \in Nat
          BY <1>t, <4>2 DEF DeliveryPcs
        <4>4. r \in DeliveryRow
          BY <1>n, <4>2, <4>3 DEF DeliveryRow
        <4> QED
          BY <3>1, <4>1, <4>3, <4>4 DEF OwesFailure
      <3>2. CASE ~(delivery[d].attempt < ScheduleLength)
        BY <1>4, <1>t, <3>2 DEF Retry, DeliveryRow, DeliveryPcs, OwesFailure
      <3> QED
        BY <3>1, <3>2
    <2>2. /\ hookFailures' = [hookFailures EXCEPT ![w] = hookFailures[w] + 0]
          /\ UNCHANGED <<hook, hookFaults, posts>>
      BY <1>4, <1>t DEF Retry
    <2>3. posts[d] <= delivery[d].attempt + hookFaults /\ delivery[d].attempt <= ScheduleLength
      BY <1>t, <2>1 DEF PostsFit
    <2>9. QuietMove(w, d, r, 0)
      <3>1. r \in DeliveryRow /\ delivery' = [delivery EXCEPT ![d] = r]
        BY <2>1
      <3>2. 0 \in Nat /\ hookFailures' = [hookFailures EXCEPT ![w] = hookFailures[w] + 0]
        BY <2>2
      <3>3. OwesFailure(r) => OwesFailure(delivery[d]) \/ 0 > 0
        BY <2>1
      <3>4. r.loaded \in {NoHook, delivery[d].loaded, hook[w]}
        BY <2>1
      <3>5. hookFaults' \in Nat /\ hookFaults' >= hookFaults /\ UNCHANGED <<hook, posts>>
        BY <1>t, <2>2
      <3>6. posts[d] + (IF r.pc = "queued" THEN 1 ELSE 0) <= r.attempt + hookFaults'
        BY <1>t, <2>1, <2>2, <2>3
      <3>7. r.pc # "none" /\ r.attempt <= ScheduleLength
        BY <1>t, <2>1, <2>3
      <3> QED
        BY ONLY <3>1, <3>2, <3>3, <3>4, <3>5, <3>6, <3>7 DEF QuietMove
    <2> QED
      BY <1>t, <2>9, QuietMoves
  <1>5. CASE HookDatabaseFails(d) \/ WorkerDies(d)
    <2>0. PICK to \in {"failed", "lost", "queued"} :
              /\ Turns(d, to, NoHook)
              /\ delivery[d].pc \notin {"queued", "none"}
              /\ to = "failed" => hookFailures' = [hookFailures EXCEPT ![w] = hookFailures[w] + 1]
              /\ to # "failed" => UNCHANGED hookFailures
      BY <1>5, <1>t DEF HookDatabaseFails, WorkerDies, Turns
    <2> PICK r : r = Turned(d, to, NoHook)
      OBVIOUS
    <2>1. /\ r \in DeliveryRow /\ delivery' = [delivery EXCEPT ![d] = r] /\ r.loaded = NoHook
          /\ r.pc = to /\ r.attempt = delivery[d].attempt
          /\ delivery[d].pc \notin {"queued", "none"}
      <3>1. HookTypes
        BY DEF HookInv
      <3>2. /\ r \in DeliveryRow /\ delivery' = [delivery EXCEPT ![d] = r]
            /\ r.pc = to /\ r.attempt = delivery[d].attempt /\ r.loaded = NoHook
        <4>1. to \in DeliveryPcs
          BY DEF DeliveryPcs
        <4> QED
          BY <1>n, <2>0, <3>1, <4>1, StepMoves
      <3> QED
        BY <2>0, <3>2
    <2>2. PICK n \in {0, 1} : /\ hookFailures' = [hookFailures EXCEPT ![w] = hookFailures[w] + n]
                              /\ r.pc = "failed" => n = 1
      <3>1. CASE to # "failed"
        BY <1>t, <2>0, <2>1, <3>1
      <3>2. CASE to = "failed"
        BY <2>0, <3>2
      <3> QED
        BY <3>1, <3>2
    <2>3. hookFaults' = hookFaults + 1 /\ UNCHANGED <<hook, posts>>
      BY <1>5 DEF HookDatabaseFails, WorkerDies, HookFault
    <2>4. posts[d] <= delivery[d].attempt + hookFaults /\ delivery[d].attempt <= ScheduleLength
      BY <1>t, <2>1 DEF PostsFit
    <2>5. OwesFailure(r) => n > 0
      BY <2>1, <2>2 DEF OwesFailure
    <2>9. QuietMove(w, d, r, n)
      <3>1. r \in DeliveryRow /\ delivery' = [delivery EXCEPT ![d] = r]
        BY <2>1
      <3>2. n \in Nat /\ hookFailures' = [hookFailures EXCEPT ![w] = hookFailures[w] + n]
        BY <2>2
      <3>3. OwesFailure(r) => OwesFailure(delivery[d]) \/ n > 0
        BY <2>5
      <3>4. r.loaded \in {NoHook, delivery[d].loaded, hook[w]}
        BY <2>1
      <3>5. hookFaults' \in Nat /\ hookFaults' >= hookFaults /\ UNCHANGED <<hook, posts>>
        BY <1>t, <2>3
      <3>6. posts[d] + (IF r.pc = "queued" THEN 1 ELSE 0) <= r.attempt + hookFaults'
        BY <1>t, <2>1, <2>3, <2>4
      <3>7. r.pc # "none" /\ r.attempt <= ScheduleLength
        BY <1>t, <2>1, <2>4
      <3> QED
        BY ONLY <3>1, <3>2, <3>3, <3>4, <3>5, <3>6, <3>7 DEF QuietMove
    <2> QED
      BY <1>t, <2>9, QuietMoves
  <1> QED
    BY <1>1, <1>2, <1>3, <1>4, <1>5 DEF ProcessorStep

\* A webhook is created active and without failures, or its row is removed.
LEMMA RegistrationKeeps ==
  ASSUME HookInv, NEW w \in Webhooks, createWebhook(w) \/ removeWebhook(w)
  PROVE  HookInv'
  <1>1. PICK row \in {NewHook, NoHook} : hook' = [hook EXCEPT ![w] = row]
    BY DEF createWebhook, removeWebhook
  <1>2. UNCHANGED <<delivery, hookFaults, posts, hookFailures>>
    BY DEF createWebhook, removeWebhook
  <1>3. /\ hook \in [Webhooks -> HookRow] /\ hookFailures[w] \in Nat
        /\ IsFiniteSet(Pending(w)) /\ RowCounts(w, hook[w]) /\ hook[w].failureCount \in Nat
    BY DEF HookInv, HookTypes, HookRow
  <1>4. Cardinality(Pending(w)) \in Nat
    BY <1>3, FS_CardinalityType
  <1>5. row \in HookRow /\ RowCounts(w, row)
    <2>1. /\ row \in HookRow /\ row.failureCount = 0 /\ (row.exists => row.isActive)
      <3>1. CASE row = NewHook
        BY <3>1 DEF NewHook, HookRow
      <3>2. CASE row = NoHook
        BY <3>2 DEF NoHook, HookRow
      <3> QED
        BY <3>1, <3>2
    <2>2. PICK k \in Nat : k = Cardinality(Pending(w))
      BY <1>4
    <2>3. 0 + k <= hookFailures[w]
      BY <1>3, <2>2 DEF RowCounts
    <2> QED
      BY <2>1, <2>2, <2>3 DEF RowCounts
  <1>6. HookTypes'
    BY <1>1, <1>2, <1>5 DEF HookInv, HookTypes
  <1>7. \A v \in Webhooks : Pending(v)' = Pending(v)
    BY <1>2 DEF Pending
  <1>8. ASSUME NEW v \in Webhooks PROVE IsFiniteSet(Pending(v)') /\ RowCounts(v, hook[v])'
    <2>1. hook'[v] = (IF v = w THEN row ELSE hook[v]) /\ RowCounts(v, hook[v])
          /\ IsFiniteSet(Pending(v))
      BY <1>1, <1>3 DEF HookInv
    <2>2. RowCounts(v, IF v = w THEN row ELSE hook[v])
      BY <1>5, <2>1
    <2> QED
      BY <1>2, <1>7, <2>1, <2>2 DEF RowCounts
  <1>9. ASSUME NEW d \in Deliveries PROVE PostsFit(d)' /\ RowCounts(d[1], delivery[d].loaded)'
    <2>1. PostsFit(d) /\ RowCounts(d[1], delivery[d].loaded) /\ d[1] \in Webhooks
      BY DEF HookInv, Deliveries
    <2> QED
      BY <1>2, <1>7, <2>1 DEF PostsFit, RowCounts
  <1> QED
    BY <1>6, <1>8, <1>9 DEF HookInv

\* A dispatch queues first attempts for deliveries that had none.
LEMMA DispatchKeeps ==
  ASSUME HookInv, NEW e \in HookEvents, dispatch(e)
  PROVE  HookInv'
  <1> PICK first : first = [NoDelivery EXCEPT !.pc = "queued", !.attempt = 1]
    OBVIOUS
  <1>0. /\ ScheduleLength \in Nat /\ ScheduleLength > 0 /\ NoHook \in HookRow
        /\ delivery \in [Deliveries -> DeliveryRow] /\ hookFaults \in Nat /\ posts \in [Deliveries -> Nat]
        /\ hookFailures \in [Webhooks -> Nat]
    BY WebhookAssumption DEF WebhookAssumption, NoHook, HookRow, HookInv, HookTypes
  <1>1. first = [pc |-> "queued", attempt |-> 1, loaded |-> NoHook]
    BY DEF NoDelivery
  <1>2. first \in DeliveryRow /\ first.pc = "queued" /\ first.attempt = 1 /\ first.loaded = NoHook
    <2>1. /\ first.pc = "queued" /\ first.attempt = 1 /\ first.loaded = NoHook
          /\ "queued" \in DeliveryPcs
      <3>1. "queued" \in DeliveryPcs
        BY DEF DeliveryPcs
      <3> QED
        BY ONLY <1>1, <3>1
    <2> QED
      BY <1>0, <1>1, <2>1 DEF DeliveryRow
  <1>3. UNCHANGED <<hook, hookFaults, posts, hookFailures>>
    BY DEF dispatch
  <1>4. ASSUME NEW d \in Deliveries
        PROVE  /\ \/ delivery'[d] = delivery[d]
                  \/ delivery'[d] = first /\ delivery[d].pc = "none"
               /\ d[1] \in Webhooks /\ delivery[d] \in DeliveryRow
    <2>1. PICK w \in Webhooks, f \in HookEvents : d = <<w, f>>
      BY DEF Deliveries
    <2>2. f = e => delivery[d].pc = "none"
      BY <2>1 DEF dispatch
    <2>3. delivery'[d] = IF d[2] = e /\ hook[d[1]].isActive THEN first ELSE delivery[d]
      BY DEF dispatch
    <2>4. CASE d[2] = e /\ hook[d[1]].isActive
      BY <1>0, <2>1, <2>2, <2>3, <2>4
    <2>5. CASE ~(d[2] = e /\ hook[d[1]].isActive)
      BY <1>0, <2>1, <2>3, <2>5
    <2> QED
      BY <2>4, <2>5
  <1>5. HookTypes'
    <2>1. delivery' \in [Deliveries -> DeliveryRow]
      <3>1. delivery' = [d \in Deliveries |->
                            IF d[2] = e /\ hook[d[1]].isActive THEN first ELSE delivery[d]]
        BY DEF dispatch
      <3> QED
        BY <1>0, <1>2, <3>1
    <2> QED
      BY <1>3, <2>1 DEF HookInv, HookTypes
  <1>6. \A w \in Webhooks, f \in HookEvents :
           OwesFailure(delivery'[<<w, f>>]) <=> OwesFailure(delivery[<<w, f>>])
    <2> SUFFICES ASSUME NEW w \in Webhooks, NEW f \in HookEvents
                 PROVE  OwesFailure(delivery'[<<w, f>>]) <=> OwesFailure(delivery[<<w, f>>])
      OBVIOUS
    <2>1. <<w, f>> \in Deliveries
      BY DEF Deliveries
    <2> QED
      BY <1>2, <1>4, <2>1 DEF OwesFailure
  <1>7. \A w \in Webhooks : Pending(w)' = Pending(w)
    BY <1>6 DEF Pending
  <1>8. \A w \in Webhooks : IsFiniteSet(Pending(w)') /\ RowCounts(w, hook[w])'
    BY <1>3, <1>7 DEF HookInv, RowCounts
  <1>9. ASSUME NEW d \in Deliveries PROVE PostsFit(d)' /\ RowCounts(d[1], delivery[d].loaded)'
    <2>1. /\ PostsFit(d) /\ RowCounts(d[1], delivery[d].loaded) /\ posts[d] \in Nat
          /\ d[1] \in Webhooks
      BY <1>0, <1>4 DEF HookInv
    <2>2. CASE delivery'[d] = delivery[d]
      BY <1>3, <1>7, <2>1, <2>2 DEF PostsFit, RowCounts
    <2>3. CASE delivery'[d] = first /\ delivery[d].pc = "none"
      <3>1. PostsFit(d)'
        BY <1>0, <1>2, <1>3, <2>1, <2>3 DEF PostsFit
      <3>2. RowCounts(d[1], NoHook)
        <4>1. /\ Cardinality(Pending(d[1])) \in Nat /\ hook[d[1]].failureCount \in Nat
              /\ RowCounts(d[1], hook[d[1]]) /\ hookFailures[d[1]] \in Nat
          BY <1>0, <2>1, FS_CardinalityType DEF HookInv, HookTypes, HookRow
        <4> QED
          BY <4>1 DEF RowCounts, NoHook
      <3> QED
        BY <1>2, <1>3, <1>7, <2>1, <2>3, <3>1, <3>2 DEF RowCounts
    <2> QED
      BY <1>4, <2>2, <2>3
  <1> QED
    BY <1>5, <1>8, <1>9 DEF HookInv

\* Every step of the webhooks keeps the invariant.
LEMMA HookInvStep == HookInv /\ [HookNext]_hookVars => HookInv'
  <1> SUFFICES ASSUME HookInv, [HookNext]_hookVars PROVE HookInv'
    OBVIOUS
  <1>1. CASE UNCHANGED hookVars
    <2>1. UNCHANGED <<hook, delivery, hookFaults, posts, hookFailures>>
      BY <1>1 DEF hookVars
    <2>2. \A w \in Webhooks : Pending(w)' = Pending(w)
      BY <2>1 DEF Pending
    <2> QED
      <3>1. HookTypes'
        BY <2>1 DEF HookInv, HookTypes
      <3>2. \A w \in Webhooks : IsFiniteSet(Pending(w)') /\ RowCounts(w, hook[w])'
        BY <2>1, <2>2 DEF HookInv, RowCounts
      <3>3. \A d \in Deliveries : PostsFit(d)' /\ RowCounts(d[1], delivery[d].loaded)'
        <4> SUFFICES ASSUME NEW d \in Deliveries
                     PROVE  PostsFit(d)' /\ RowCounts(d[1], delivery[d].loaded)'
          OBVIOUS
        <4>1. d[1] \in Webhooks
          BY DEF Deliveries
        <4> QED
          BY <2>1, <2>2, <4>1 DEF HookInv, RowCounts, PostsFit
      <3> QED
        BY <3>1, <3>2, <3>3 DEF HookInv
  <1> QED
    BY <1>1, RegistrationKeeps, DispatchKeeps, ProcessorKeeps DEF HookNext

\* The webhooks start without rows, jobs and posts.
LEMMA HookInitially == HookInit => HookInv
  <1> SUFFICES ASSUME HookInit PROVE HookInv
    OBVIOUS
  <1>1. NoHook \in HookRow /\ NoDelivery \in DeliveryRow
    <2>1. NoHook \in HookRow
      BY DEF NoHook, HookRow
    <2> QED
      BY <2>1 DEF NoDelivery, DeliveryRow, DeliveryPcs
  <1>2. HookTypes
    BY <1>1 DEF HookInit, HookTypes
  <1>3. \A d \in Deliveries : delivery[d] = NoDelivery /\ posts[d] = 0
    BY DEF HookInit
  <1>4. \A w \in Webhooks : Pending(w) = {}
    <2> SUFFICES ASSUME NEW w \in Webhooks, NEW e \in HookEvents
                 PROVE  ~OwesFailure(delivery[<<w, e>>])
      BY DEF Pending
    <2>1. <<w, e>> \in Deliveries
      BY DEF Deliveries
    <2> QED
      BY <1>3, <2>1 DEF NoDelivery, OwesFailure
  <1>5. \A w \in Webhooks : IsFiniteSet(Pending(w)) /\ RowCounts(w, NoHook)
    <2>1. IsFiniteSet({}) /\ Cardinality({}) = 0
      BY FS_EmptySet
    <2>2. NoHook.failureCount = 0 /\ ~NoHook.exists
      BY DEF NoHook
    <2>3. \A w \in Webhooks : hookFailures[w] = 0
      BY DEF HookInit
    <2> QED
      BY <1>4, <2>1, <2>2, <2>3, 0 + 0 <= 0 DEF RowCounts
  <1>6. \A w \in Webhooks : hook[w] = NoHook
    BY DEF HookInit
  <1>7. \A d \in Deliveries : PostsFit(d) /\ RowCounts(d[1], delivery[d].loaded)
    <2> SUFFICES ASSUME NEW d \in Deliveries
                 PROVE  PostsFit(d) /\ RowCounts(d[1], delivery[d].loaded)
      OBVIOUS
    <2>1. d[1] \in Webhooks
      BY DEF Deliveries
    <2> QED
      BY <1>3, <1>5, <2>1, WebhookAssumption DEF PostsFit, NoDelivery, HookInit, WebhookAssumption
  <1> QED
    BY <1>2, <1>5, <1>6, <1>7 DEF HookInv

\* What the invariant says of posts and rows.
LEMMA HookKept == HookInv => PostsBounded /\ CountsOnlyFailures
  <1> SUFFICES ASSUME HookInv PROVE PostsBounded /\ CountsOnlyFailures
    OBVIOUS
  <1>1. PostsBounded
    <2> SUFFICES ASSUME NEW d \in Deliveries PROVE posts[d] <= ScheduleLength + hookFaults
      BY DEF PostsBounded
    <2>1. /\ posts[d] \in Nat /\ hookFaults \in Nat /\ delivery[d].attempt \in Nat /\ PostsFit(d)
          /\ ScheduleLength \in Nat
      BY WebhookAssumption DEF HookInv, HookTypes, DeliveryRow, WebhookAssumption
    <2> QED
      BY <2>1 DEF PostsFit
  <1>2. CountsOnlyFailures
    <2> SUFFICES ASSUME NEW w \in Webhooks
                 PROVE  /\ hook[w].failureCount <= hookFailures[w]
                        /\ hook[w].exists /\ ~hook[w].isActive => hookFailures[w] >= DeactivateAt
      BY DEF CountsOnlyFailures
    <2>1. /\ RowCounts(w, hook[w]) /\ Cardinality(Pending(w)) \in Nat
          /\ hook[w].failureCount \in Nat /\ hookFailures[w] \in Nat
      BY FS_CardinalityType DEF HookInv, HookTypes, HookRow
    <2> QED
      BY <2>1 DEF RowCounts
  <1> QED
    BY <1>1, <1>2

\* Only a webhook that is created and a processor that saves a row it had loaded
\* make a row active.
ReviveStep ==
    \A w \in Webhooks :
        ~hook[w].isActive /\ hook'[w].isActive =>
            \/ hook'[w] = NewHook /\ \A e \in HookEvents : delivery[<<w, e>>].pc = "none"
            \/ \E e \in HookEvents : delivery[<<w, e>>].loaded.isActive

\* Every step of the webhooks is such a step.
LEMMA HookRevives == HookInv /\ [HookNext]_hookVars => [ReviveStep]_hookVars
  <1> SUFFICES ASSUME HookInv, HookNext, NEW w \in Webhooks, ~hook[w].isActive, hook'[w].isActive
               PROVE  \/ hook'[w] = NewHook /\ \A e \in HookEvents : delivery[<<w, e>>].pc = "none"
                      \/ \E e \in HookEvents : delivery[<<w, e>>].loaded.isActive
    BY DEF ReviveStep
  <1>0. hook \in [Webhooks -> HookRow] /\ hook[w] # hook'[w]
    BY DEF HookInv, HookTypes
  <1>1. ASSUME NEW v \in Webhooks, createWebhook(v)
        PROVE  hook'[w] = NewHook /\ \A e \in HookEvents : delivery[<<w, e>>].pc = "none"
    BY <1>0, <1>1 DEF createWebhook
  <1>2. ASSUME NEW v \in Webhooks, removeWebhook(v) PROVE FALSE
    BY <1>0, <1>2 DEF removeWebhook, NoHook
  <1>3. ASSUME NEW e \in HookEvents, dispatch(e) PROVE FALSE
    BY <1>0, <1>3 DEF dispatch
  <1>4. ASSUME NEW d \in Deliveries, ProcessorStep(d) \/ HookDatabaseFails(d) \/ WorkerDies(d)
        PROVE  \E e \in HookEvents : delivery[<<w, e>>].loaded.isActive
    <2>1. PICK v \in Webhooks, e \in HookEvents : d = <<v, e>> /\ d[1] = v
      BY DEF Deliveries
    <2>2. PICK x : x = delivery[d].loaded /\ x \in HookRow
      BY DEF HookInv, HookTypes, DeliveryRow
    <2>3. CASE markWebhookSuccess(d)
      <3>1. hook' = [hook EXCEPT ![v] = [x EXCEPT !.failureCount = 0]]
        BY <1>0, <2>1, <2>2, <2>3 DEF markWebhookSuccess, SaveHook
      <3>2. w = v /\ hook'[w] = [x EXCEPT !.failureCount = 0]
        BY <1>0, <3>1
      <3> QED
        BY <2>1, <2>2, <3>2 DEF HookRow
    <2>4. CASE markWebhookFailure(d)
      <3> PICK count : count = x.failureCount + 1
        OBVIOUS
      <3>1. hook' = [hook EXCEPT ![v] = [x EXCEPT !.failureCount = count,
                                             !.isActive = IF count >= DeactivateAt THEN FALSE ELSE @]]
        BY <1>0, <2>1, <2>2, <2>4 DEF markWebhookFailure, SaveHook
      <3>2. w = v /\ hook'[w] = [x EXCEPT !.failureCount = count,
                                          !.isActive = IF count >= DeactivateAt THEN FALSE ELSE @]
        BY <1>0, <3>1
      <3>3. x.isActive
        BY <2>2, <3>2 DEF HookRow
      <3> QED
        BY <2>1, <2>2, <3>2, <3>3
    <2> QED
      BY <1>0, <1>4, <2>3, <2>4
         DEF ProcessorStep, Post, LoadHook, Retry, HookDatabaseFails, WorkerDies
  <1> QED
    BY <1>1, <1>2, <1>3, <1>4 DEF HookNext

--------------------------------------------------------------------------------
(* Mails                                                                   *)

MailTypes ==
    /\ mailStatus \in [Mails -> SUBSET {"queued", "sent", "failed"}]
    /\ mailJob \in [Mails -> [pc : {"none", "saved", "queued", "sent", "threw", "gone"},
                              attemptsMade : Nat, stalled : BOOLEAN]]
    /\ mailFaults \in Nat
    /\ accepted \in [Mails -> Nat]

\* A mail on its way to be recorded was taken, and the job that records it is
\* the one taking that cost no fault; attempts are left while there is a job.
MailFits(m) ==
    /\ mailJob[m].pc = "sent" \/ "sent" \in mailStatus[m] => accepted[m] > 0
    /\ accepted[m] <= mailFaults + (IF mailJob[m].pc \in {"sent", "gone"} THEN 1 ELSE 0)
    /\ mailJob[m].pc # "gone" => mailJob[m].attemptsMade < MailAttempts

MailInv == MailTypes /\ (\A m \in Mails : MailFits(m)) /\ OutcomeRecorded

\* What a record leaves of a mail.
LEMMA Recorded ==
  ASSUME MailTypes, NEW m \in Mails, NEW entry \in {"queued", "sent", "failed"}, Record(m, entry)
  PROVE  /\ entry \in mailStatus'[m] /\ mailStatus'[m] \subseteq {"queued", "sent", "failed"}
         /\ mailStatus' = [mailStatus EXCEPT ![m] = mailStatus'[m]]
         /\ mailStatus'[m] \subseteq mailStatus[m] \cup {entry}
  <1>1. mailStatus[m] \subseteq {"queued", "sent", "failed"}
    BY DEF MailTypes
  <1>2. CASE m \in RowMails
    BY <1>1, <1>2 DEF Record, MailTypes
  <1>3. CASE m \notin RowMails
    BY <1>1, <1>3 DEF Record, MailTypes
  <1> QED
    BY <1>2, <1>3

\* A step of one mail.
LEMMA MailFitsStep ==
  ASSUME MailInv, NEW m \in Mails,
         \/ SaveQueued(m) \/ QueueingDies(m) \/ MailStep(m)
         \/ RecordThrows(m) \/ MailWorkerDies(m)
  PROVE  MailInv'
  <1>t. /\ MailTypes /\ mailJob[m] \in [pc : {"none", "saved", "queued", "sent", "threw", "gone"},
                                        attemptsMade : Nat, stalled : BOOLEAN]
        /\ mailStatus[m] \subseteq {"queued", "sent", "failed"} /\ accepted[m] \in Nat
        /\ MailFits(m) /\ MailAttempts \in Nat
    BY MailAssumption DEF MailInv, MailTypes, MailAssumption
  <1> PICK j : j = mailJob'[m]
    OBVIOUS
  <1> PICK st : st = mailStatus'[m]
    OBVIOUS
  <1> PICK k : k = accepted'[m]
    OBVIOUS
  <1>0. SUFFICES
        /\ j \in [pc : {"none", "saved", "queued", "sent", "threw", "gone"}, attemptsMade : Nat,
                  stalled : BOOLEAN]
        /\ mailJob' = [mailJob EXCEPT ![m] = j]
        /\ st \subseteq {"queued", "sent", "failed"} /\ mailStatus' = [mailStatus EXCEPT ![m] = st]
        /\ k \in Nat /\ accepted' = [accepted EXCEPT ![m] = k]
        /\ mailFaults' \in Nat /\ mailFaults' >= mailFaults
        /\ j.pc = "sent" \/ "sent" \in st => k > 0
        /\ k <= mailFaults' + (IF j.pc \in {"sent", "gone"} THEN 1 ELSE 0)
        /\ j.pc # "gone" => j.attemptsMade < MailAttempts
        /\ j.pc = "gone" => m \in unrecorded' \/ st \cap {"sent", "failed"} # {}
        /\ unrecorded \subseteq unrecorded'
    BY <1>t DEF MailInv, MailTypes, MailFits, OutcomeRecorded
  <1>1. CASE SaveQueued(m)
    BY <1>1, <1>t DEF SaveQueued, MoveJob, Record, MailTypes, MailFits
  <1>2. CASE QueueingDies(m)
    BY <1>2, <1>t DEF QueueingDies, MoveJob, MailFault, MailTypes, MailFits
  <1>3. CASE AddJob(m)
    BY <1>3, <1>t DEF AddJob, MoveJob, MailTypes, MailFits
  <1>4. CASE SendMail(m)
    BY <1>4, <1>t DEF SendMail, MoveJob, MailFault, MailTypes, MailFits
  <1>5. CASE RecordSent(m)
    <2>1. /\ mailJob[m].pc = "sent" /\ j = [mailJob[m] EXCEPT !.pc = "gone"]
          /\ mailJob' = [mailJob EXCEPT ![m] = j]
      BY <1>5, <1>t DEF RecordSent, MoveJob, MailTypes
    <2>2. "sent" \in st /\ st \subseteq {"queued", "sent", "failed"}
          /\ mailStatus' = [mailStatus EXCEPT ![m] = st]
      BY <1>5, <1>t, Recorded DEF RecordSent
    <2>3. k = accepted[m] /\ accepted' = [accepted EXCEPT ![m] = k] /\ mailFaults' = mailFaults
      BY <1>5, <1>t DEF RecordSent, MailTypes
    <2> QED
      BY <1>5, <1>t, <2>1, <2>2, <2>3 DEF RecordSent, MailTypes, MailFits
  <1>6. CASE AttemptFailed(m)
    <2> PICK made : made = mailJob[m].attemptsMade + 1
      OBVIOUS
    <2>1. /\ mailJob[m].pc = "threw" /\ made \in Nat
          /\ j = [mailJob[m] EXCEPT !.attemptsMade = made,
                                    !.pc = IF made < MailAttempts THEN "queued" ELSE "gone"]
          /\ mailJob' = [mailJob EXCEPT ![m] = j]
      BY <1>6, <1>t DEF AttemptFailed, MailTypes
    <2>3. k = accepted[m] /\ accepted' = [accepted EXCEPT ![m] = k]
      BY <1>6, <1>t DEF AttemptFailed, MailTypes
    <2>4. ASSUME Record(m, "failed")
          PROVE  /\ "failed" \in st /\ st \subseteq {"queued", "sent", "failed"}
                 /\ mailStatus' = [mailStatus EXCEPT ![m] = st]
                 /\ "sent" \in st => "sent" \in mailStatus[m]
      BY <2>4, <1>t, Recorded
    <2>5. ASSUME UNCHANGED mailStatus
          PROVE  st = mailStatus[m] /\ mailStatus' = [mailStatus EXCEPT ![m] = st]
      BY <2>5, <1>t DEF MailTypes
    <2>6. /\ st \subseteq {"queued", "sent", "failed"}
          /\ mailStatus' = [mailStatus EXCEPT ![m] = st]
          /\ "sent" \in st => "sent" \in mailStatus[m]
      BY <1>6, <1>t, <2>4, <2>5 DEF AttemptFailed
    <2>7. /\ mailFaults' \in Nat /\ mailFaults' >= mailFaults /\ unrecorded \subseteq unrecorded'
      BY <1>6, <1>t DEF AttemptFailed, MailFault, MailTypes
    <2>8. made < MailAttempts \/ m \in unrecorded' \/ "failed" \in st
      BY <1>6, <1>t, <2>1, <2>4 DEF AttemptFailed, MailFits
    <2>9. /\ j \in [pc : {"none", "saved", "queued", "sent", "threw", "gone"}, attemptsMade : Nat,
                      stalled : BOOLEAN]
          /\ j.attemptsMade = made /\ j.pc = IF made < MailAttempts THEN "queued" ELSE "gone"
      BY ONLY <1>t, <2>1
    <2>10. /\ k \in Nat /\ ("sent" \in mailStatus[m] => k > 0)
           /\ k <= mailFaults
      <3>1. accepted[m] <= mailFaults + (IF mailJob[m].pc \in {"sent", "gone"} THEN 1 ELSE 0)
            /\ ("sent" \in mailStatus[m] => accepted[m] > 0) /\ accepted[m] \in Nat
        BY <1>t DEF MailFits
      <3>2. mailJob[m].pc = "threw" /\ k = accepted[m] /\ mailFaults \in Nat
        BY <1>t, <2>1, <2>3 DEF MailTypes
      <3> QED
        BY ONLY <3>1, <3>2
    <2>11. mailFaults \in Nat
      BY <1>t DEF MailTypes
    <2>12. k <= mailFaults' + (IF j.pc \in {"sent", "gone"} THEN 1 ELSE 0)
      BY ONLY <2>7, <2>10, <2>11
    <2>13. j.pc = "sent" \/ "sent" \in st => k > 0
      BY ONLY <2>6, <2>9, <2>10
    <2>14. /\ j.pc # "gone" => j.attemptsMade < MailAttempts
           /\ j.pc = "gone" => m \in unrecorded' \/ st \cap {"sent", "failed"} # {}
      BY ONLY <2>8, <2>9
    <2> QED
      BY ONLY <2>1, <2>3, <2>6, <2>7, <2>9, <2>10, <2>12, <2>13, <2>14
  <1>7. CASE RecordThrows(m)
    BY <1>7, <1>t DEF RecordThrows, MoveJob, MailFault, MailTypes, MailFits
  <1>8. CASE MailWorkerDies(m)
    BY <1>8, <1>t DEF MailWorkerDies, MailFault, MailTypes, MailFits
  <1> QED
    BY <1>1, <1>2, <1>3, <1>4, <1>5, <1>6, <1>7, <1>8 DEF MailStep

\* Every step of the mails keeps it.
LEMMA MailInvStep == MailInv /\ [MailNext]_mailVars => MailInv'
  <1> SUFFICES ASSUME MailInv, [MailNext]_mailVars PROVE MailInv'
    OBVIOUS
  <1>1. CASE UNCHANGED mailVars
    BY <1>1 DEF MailInv, MailTypes, MailFits, OutcomeRecorded, mailVars
  <1> QED
    BY <1>1, MailFitsStep DEF MailNext

\* It holds at the start.
LEMMA MailInitially == MailInit => MailInv
  BY MailAssumption DEF MailAssumption, MailInit, MailInv, MailTypes, MailFits, OutcomeRecorded

\* It says what the component promises.
LEMMA MailKept == MailInv => SentWasAccepted /\ OutcomeRecorded /\ MailsBounded
  BY DEF MailInv, MailTypes, MailFits, SentWasAccepted, MailsBounded

--------------------------------------------------------------------------------
(* Contract calls                                                          *)

CallPcs == {"load", "simulate", "prepare", "post", "poll", "ok", "failed"}
CallRow == [kind : CallKinds, pc : CallPcs, attempt : Nat, seq : Nat]
RpcTypes ==
    /\ call \in [Calls -> CallRow] /\ sequence \in Nat
    /\ pool \subseteq [call : Calls, seq : Nat]
    /\ included \subseteq [call : Calls, seq : Nat, success : BOOLEAN]

\* A read is only simulated, and a submitted call that ended well was applied.
StageFits(c, r) ==
    /\ r.pc = "simulate" => r.kind = "read"
    /\ r.pc \in {"prepare", "post", "poll"} => r.kind # "read"
    /\ r.pc = "ok" /\ r.kind = "submit" => \E t \in included : t.call = c /\ t.success

\* The transactions of a call have the one sequence number it was built with.
TxFits(t) ==
    /\ t.seq = call[t.call].seq /\ call[t.call].kind # "read"
    /\ call[t.call].pc # "load"

RpcInv ==
    /\ RpcTypes
    /\ \A c \in Calls : StageFits(c, call[c])
    /\ \A t \in pool : TxFits(t)
    /\ \A t \in included : TxFits(t) /\ t.seq <= sequence
    /\ \A t, u \in included : t.call = u.call => t = u

\* The calls start before the request for the account.
LEMMA RpcInitially == RpcInit => RpcInv
  <1> SUFFICES ASSUME RpcInit PROVE RpcInv
    OBVIOUS
  <1>1. /\ call \in [Calls -> CallRow] /\ sequence = 0 /\ pool = {} /\ included = {}
        /\ \A c \in Calls : call[c].pc = "load"
    BY DEF RpcInit, CallRow, CallPcs
  <1> QED
    BY <1>1 DEF RpcInv, RpcTypes, StageFits

\* What a call may do: its record becomes r and the server may take its
\* transaction; the number it is built with changes before that only.
CallMove(c, r) ==
    /\ r \in CallRow /\ call' = [call EXCEPT ![c] = r]
    /\ UNCHANGED <<sequence, included>>
    /\ r.kind = call[c].kind
    /\ call[c].pc = "load" \/ (r.seq = call[c].seq /\ r.pc # "load")
    /\ StageFits(c, r)
    /\ pool' = pool \/ (pool' = pool \cup {Tx(c)} /\ call[c].pc = "post")

\* Such a move keeps the invariant.
LEMMA CallMoves ==
  ASSUME RpcInv, NEW c \in Calls, NEW r, CallMove(c, r)
  PROVE  RpcInv'
  <1>1. /\ r \in CallRow /\ call' = [call EXCEPT ![c] = r] /\ sequence' = sequence
        /\ included' = included /\ r.kind = call[c].kind /\ StageFits(c, r)
        /\ call[c].pc = "load" \/ (r.seq = call[c].seq /\ r.pc # "load")
        /\ pool' = pool \/ (pool' = pool \cup {Tx(c)} /\ call[c].pc = "post")
    BY DEF CallMove
  <1>2. /\ call \in [Calls -> CallRow] /\ sequence \in Nat /\ call[c] \in CallRow
        /\ pool \subseteq [call : Calls, seq : Nat]
        /\ included \subseteq [call : Calls, seq : Nat, success : BOOLEAN]
        /\ StageFits(c, call[c])
    BY DEF RpcInv, RpcTypes
  <1>3. Tx(c) \in [call : Calls, seq : Nat] /\ Tx(c).call = c /\ Tx(c).seq = call[c].seq
    BY <1>2 DEF Tx, CallRow
  <1>4. RpcTypes'
    BY <1>1, <1>2, <1>3 DEF RpcTypes
  <1>5. ASSUME NEW t, t.call \in Calls, TxFits(t) PROVE TxFits(t)'
    BY <1>1, <1>2, <1>5 DEF TxFits
  <1>6. call[c].pc = "post" => TxFits(Tx(c))
    BY <1>2, <1>3 DEF TxFits, StageFits
  <1>7. \A t \in pool' : TxFits(t)'
    <2> SUFFICES ASSUME NEW t \in pool' PROVE TxFits(t)'
      OBVIOUS
    <2>1. t.call \in Calls /\ TxFits(t)
      BY <1>1, <1>2, <1>3, <1>6 DEF RpcInv
    <2> QED
      BY <1>5, <2>1
  <1>8. \A t \in included' : TxFits(t)' /\ t.seq <= sequence'
    <2> SUFFICES ASSUME NEW t \in included PROVE TxFits(t)' /\ t.seq <= sequence
      BY <1>1
    <2>1. t.call \in Calls /\ TxFits(t) /\ t.seq <= sequence
      BY <1>2 DEF RpcInv
    <2> QED
      BY <1>5, <2>1
  <1>9. \A d \in Calls : StageFits(d, call[d])'
    <2> SUFFICES ASSUME NEW d \in Calls PROVE StageFits(d, call[d])'
      OBVIOUS
    <2>1. StageFits(d, call'[d])
      BY <1>1, <1>2 DEF RpcInv
    <2> QED
      BY <1>1, <2>1 DEF StageFits
  <1> QED
    BY <1>1, <1>4, <1>7, <1>8, <1>9 DEF RpcInv

\* Every step of a call is such a move.
LEMMA CallSteps ==
  ASSUME RpcInv, NEW c \in Calls,
         \/ LoadAccount(c) \/ Simulate(c) \/ Prepare(c) \/ Send(c)
         \/ SendUnanswered(c) \/ Poll(c) \/ RequestFails(c)
  PROVE  \E r : CallMove(c, r)
  <1> PICK x \in CallRow : x = call[c]
    BY DEF RpcInv, RpcTypes
  <1>0. call \in [Calls -> CallRow] /\ StageFits(c, x) /\ sequence \in Nat
    BY DEF RpcInv, RpcTypes
  \* Going on to another stage, from the first attempt again.
  <1>g. ASSUME NEW to \in CallPcs, Go(c, to)
        PROVE  \E r \in CallRow : /\ call' = [call EXCEPT ![c] = r] /\ r.kind = x.kind /\ r.seq = x.seq
                                  /\ r.pc = to
    <2> PICK mid : mid = [x EXCEPT !.pc = to]
      OBVIOUS
    <2> PICK r : r = [mid EXCEPT !.attempt = 1]
      OBVIOUS
    <2>1. mid \in CallRow /\ mid.kind = x.kind /\ mid.seq = x.seq /\ mid.pc = to
      BY <1>g DEF CallRow
    <2>2. r \in CallRow /\ r.kind = x.kind /\ r.seq = x.seq /\ r.pc = to
      BY <2>1 DEF CallRow
    <2> PICK f : f = [call EXCEPT ![c].pc = to]
      OBVIOUS
    <2>3. f = [call EXCEPT ![c] = mid] /\ f[c] = mid
      BY <1>0
    <2>4. call' = [f EXCEPT ![c].attempt = 1]
      BY <1>g DEF Go
    <2>5. call' = [f EXCEPT ![c] = r]
      BY <2>3, <2>4
    <2>6. call' = [call EXCEPT ![c] = r]
      BY <1>0, <2>3, <2>5
    <2> QED
      BY <2>2, <2>6
  <1>p. \A to \in {"load", "simulate", "prepare", "post", "poll", "ok", "failed"} : to \in CallPcs
    BY DEF CallPcs
  \* A stage that is left for the end in failure, or tried again.
  <1>f. ASSUME AttemptFails(c), UNCHANGED <<sequence, included>>,
               pool' = pool \/ (pool' = pool \cup {Tx(c)} /\ x.pc = "post")
        PROVE  \E r : CallMove(c, r)
    <2>1. CASE Go(c, "failed")
      <3>1. PICK r \in CallRow : /\ call' = [call EXCEPT ![c] = r] /\ r.kind = x.kind /\ r.seq = x.seq
                                 /\ r.pc = "failed"
        BY <1>g, <1>p, <2>1
      <3>2. StageFits(c, r)
        BY <3>1 DEF StageFits
      <3> QED
        BY <1>f, <3>1, <3>2 DEF CallMove
    <2>2. CASE ~Go(c, "failed")
      <3> PICK r : r = [x EXCEPT !.attempt = x.attempt + 1]
        OBVIOUS
      <3>1. call' = [call EXCEPT ![c] = r]
        BY <1>f, <2>2 DEF AttemptFails
      <3>2. r \in CallRow /\ r.kind = x.kind /\ r.seq = x.seq /\ r.pc = x.pc
        BY DEF CallRow
      <3>3. StageFits(c, r)
        BY <1>0, <3>2 DEF StageFits
      <3> QED
        BY <1>f, <3>1, <3>2, <3>3 DEF CallMove
    <2> QED
      BY <2>1, <2>2
  <1>1. CASE LoadAccount(c)
    <2> PICK to : to = IF x.kind = "read" THEN "simulate" ELSE "prepare"
      OBVIOUS
    <2> PICK r : r = [kind |-> x.kind, pc |-> to, attempt |-> 1, seq |-> sequence + 1]
      OBVIOUS
    <2>1. r \in CallRow /\ r.kind = x.kind /\ r.pc = to /\ to \in CallPcs
      BY <1>0, <1>p DEF CallRow
    <2>2. call' = [call EXCEPT ![c] = r]
      <3> PICK a : a = [x EXCEPT !.pc = to]
        OBVIOUS
      <3> PICK b : b = [a EXCEPT !.attempt = 1]
        OBVIOUS
      <3>1. a \in CallRow /\ a.kind = x.kind /\ a.pc = to
        BY <2>1 DEF CallRow
      <3>2. b \in CallRow /\ b.kind = x.kind /\ b.pc = to /\ b.attempt = 1
        BY <3>1 DEF CallRow
      <3>3. r = [b EXCEPT !.seq = sequence + 1]
        <4>1. /\ r = [kind |-> x.kind, pc |-> to, attempt |-> 1, seq |-> sequence + 1]
              /\ r.kind = x.kind /\ r.pc = to /\ r.attempt = 1 /\ r.seq = sequence + 1
              /\ DOMAIN r = {"kind", "pc", "attempt", "seq"}
          OBVIOUS
        <4> QED
          BY <3>2, <4>1 DEF CallRow
      <3> PICK f : f = [call EXCEPT ![c].pc = to]
        OBVIOUS
      <3> PICK g : g = [f EXCEPT ![c].attempt = 1]
        OBVIOUS
      <3>4. f = [call EXCEPT ![c] = a] /\ f[c] = a
        BY <1>0
      <3>5. g = [f EXCEPT ![c] = b] /\ g[c] = b
        BY <1>0, <3>4
      <3>6. call' = [g EXCEPT ![c].seq = sequence + 1]
        BY <1>1 DEF LoadAccount
      <3>7. call' = [g EXCEPT ![c] = r]
        BY <3>3, <3>5, <3>6
      <3>8. g = [call EXCEPT ![c] = b]
        BY <1>0, <3>4, <3>5
      <3> QED
        BY <1>0, <3>7, <3>8
    <2>3. x.pc = "load" /\ UNCHANGED <<sequence, pool, included>>
      BY <1>1 DEF LoadAccount, At
    <2>4. StageFits(c, r)
      BY <2>1 DEF StageFits
    <2> QED
      BY <2>1, <2>2, <2>3, <2>4 DEF CallMove
  <1>2. CASE Simulate(c)
    <2>1. PICK to \in {"ok", "failed"} : Go(c, to) /\ x.pc = "simulate" /\ UNCHANGED <<sequence, pool, included>>
      BY <1>2 DEF Simulate, At
    <2>2. PICK r \in CallRow : /\ call' = [call EXCEPT ![c] = r] /\ r.kind = x.kind /\ r.seq = x.seq
                               /\ r.pc = to
      BY <1>g, <1>p, <2>1
    <2>3. StageFits(c, r)
      BY <1>0, <2>1, <2>2 DEF StageFits
    <2> QED
      BY <2>1, <2>2, <2>3 DEF CallMove
  <1>3. CASE Prepare(c)
    <2>1. PICK to \in {"post", "failed"} :
              Go(c, to) /\ x.pc = "prepare" /\ UNCHANGED <<sequence, pool, included>>
      BY <1>3 DEF Prepare, At
    <2>2. PICK r \in CallRow : /\ call' = [call EXCEPT ![c] = r] /\ r.kind = x.kind /\ r.seq = x.seq
                               /\ r.pc = to
      BY <1>g, <1>p, <2>1
    <2>3. StageFits(c, r)
      BY <1>0, <2>1, <2>2 DEF StageFits
    <2> QED
      BY <2>1, <2>2, <2>3 DEF CallMove
  <1>4. CASE Send(c)
    <2>1. PICK to \in {"ok", "failed", "poll"} :
              /\ Go(c, to) /\ x.pc = "post" /\ UNCHANGED <<sequence, included>>
              /\ pool' \in {pool, pool \cup {Tx(c)}}
              /\ to = "ok" => x.kind = "send"
      BY <1>4 DEF Send, At
    <2>2. PICK r \in CallRow : /\ call' = [call EXCEPT ![c] = r] /\ r.kind = x.kind /\ r.seq = x.seq
                               /\ r.pc = to
      BY <1>g, <1>p, <2>1
    <2>3. StageFits(c, r)
      BY <1>0, <2>1, <2>2 DEF StageFits
    <2> QED
      BY <2>1, <2>2, <2>3 DEF CallMove
  <1>5. CASE SendUnanswered(c)
    BY <1>5, <1>f DEF SendUnanswered, At
  <1>6. CASE Poll(c)
    <2>1. PICK to \in {"ok", "failed"} :
              /\ Go(c, to) /\ x.pc = "poll" /\ UNCHANGED <<sequence, pool, included>>
              /\ to = "ok" => \E t \in included : t.call = c /\ t.success
      BY <1>6 DEF Poll, At, InclusionsOf
    <2>2. PICK r \in CallRow : /\ call' = [call EXCEPT ![c] = r] /\ r.kind = x.kind /\ r.seq = x.seq
                               /\ r.pc = to
      BY <1>g, <1>p, <2>1
    <2>3. StageFits(c, r)
      BY <1>0, <2>1, <2>2 DEF StageFits
    <2> QED
      BY <2>1, <2>2, <2>3 DEF CallMove
  <1>7. CASE RequestFails(c)
    BY <1>7, <1>f DEF RequestFails
  <1> QED
    BY <1>1, <1>2, <1>3, <1>4, <1>5, <1>6, <1>7

\* The network includes a transaction with the next number, or forgets it.
LEMMA NetworkKeeps ==
  ASSUME RpcInv, NEW t \in pool, Include(t) \/ Drop(t)
  PROVE  RpcInv'
  <1>0. /\ call \in [Calls -> CallRow] /\ sequence \in Nat
        /\ pool \subseteq [call : Calls, seq : Nat]
        /\ included \subseteq [call : Calls, seq : Nat, success : BOOLEAN]
        /\ t.call \in Calls /\ t.seq \in Nat /\ TxFits(t)
    BY DEF RpcInv, RpcTypes
  <1>1. UNCHANGED call /\ pool' = pool \ {t}
    BY DEF Include, Drop
  <1>2. \A u : TxFits(u)' <=> TxFits(u)
    BY <1>1 DEF TxFits
  <1>3. CASE Drop(t)
    <2>1. UNCHANGED <<sequence, included>>
      BY <1>3 DEF Drop
    <2>2. RpcTypes'
      BY <1>0, <1>1, <2>1 DEF RpcTypes
    <2>3. \A c \in Calls : StageFits(c, call[c])'
      BY <1>1, <2>1 DEF RpcInv, StageFits
    <2> QED
      BY <1>1, <1>2, <2>1, <2>2, <2>3 DEF RpcInv
  <1>4. CASE Include(t)
    <2>1. PICK i \in [call : Calls, seq : Nat, success : BOOLEAN] :
              included' = included \cup {i} /\ i.call = t.call /\ i.seq = t.seq
      <3>1. PICK success \in BOOLEAN :
                included' = included \cup {[call |-> t.call, seq |-> t.seq, success |-> success]}
        BY <1>4 DEF Include
      <3> PICK i : i = [call |-> t.call, seq |-> t.seq, success |-> success]
        OBVIOUS
      <3>2. i \in [call : Calls, seq : Nat, success : BOOLEAN] /\ i.call = t.call /\ i.seq = t.seq
        BY <1>0
      <3> QED
        BY <3>1, <3>2
    <2>2. t.seq = sequence + 1 /\ sequence' = t.seq
      BY <1>4 DEF Include
    <2>3. RpcTypes'
      BY <1>0, <1>1, <2>1, <2>2 DEF RpcTypes
    <2>4. \A c \in Calls : StageFits(c, call[c])'
      <3> SUFFICES ASSUME NEW c \in Calls PROVE StageFits(c, call[c])'
        OBVIOUS
      <3>1. StageFits(c, call[c]) /\ call'[c] = call[c] /\ included \subseteq included'
        BY <1>1, <2>1 DEF RpcInv
      <3> QED
        BY <3>1 DEF StageFits
    <2>5. TxFits(i)
      BY <1>0, <2>1 DEF TxFits
    <2>6. ASSUME NEW u \in included PROVE u.seq \in Nat /\ u.seq <= sequence /\ TxFits(u) /\ u.call # t.call
      <3>1. u.seq \in Nat /\ u.seq <= sequence /\ TxFits(u)
        BY <1>0 DEF RpcInv
      <3> QED
        <4>1. t.seq = call[t.call].seq /\ u.seq = call[u.call].seq
          BY <1>0, <3>1 DEF TxFits
        <4>2. u.seq # t.seq
          BY <1>0, <2>2, <3>1
        <4> QED
          BY <3>1, <4>1, <4>2
    <2>7. \A u \in included' : TxFits(u)' /\ u.seq <= sequence'
      BY <1>0, <1>2, <2>1, <2>2, <2>5, <2>6
    <2>8. \A u, v \in included' : u.call = v.call => u = v
      BY <2>1, <2>6 DEF RpcInv
    <2> QED
      BY <1>1, <1>2, <2>3, <2>4, <2>7, <2>8 DEF RpcInv
  <1> QED
    BY <1>3, <1>4

\* Every step of the calls and the network keeps the invariant.
LEMMA RpcInvStep == RpcInv /\ [RpcNext]_rpcVars => RpcInv'
  <1> SUFFICES ASSUME RpcInv, [RpcNext]_rpcVars PROVE RpcInv'
    OBVIOUS
  <1>1. CASE UNCHANGED rpcVars
    BY <1>1 DEF rpcVars, RpcInv, RpcTypes, StageFits, TxFits
  <1>2. CASE RpcNext
    BY <1>2, CallSteps, CallMoves, NetworkKeeps DEF RpcNext
  <1> QED
    BY <1>1, <1>2

\* What the invariant says of the inclusions of a call.
LEMMA RpcKept == RpcInv => CallAppliedOnce /\ OkMeansApplied
  <1> SUFFICES ASSUME RpcInv, NEW c \in Calls
               PROVE  /\ Cardinality(InclusionsOf(c)) <= 1
                      /\ At(c, "ok") /\ call[c].kind = "submit" => \E t \in InclusionsOf(c) : t.success
                      /\ call[c].kind = "read" => InclusionsOf(c) = {}
    BY DEF CallAppliedOnce, OkMeansApplied
  <1>1. Cardinality(InclusionsOf(c)) <= 1
    <2>1. CASE InclusionsOf(c) = {}
      BY <2>1, FS_EmptySet
    <2>2. CASE InclusionsOf(c) # {}
      <3>1. PICK t : InclusionsOf(c) = {t}
        BY <2>2 DEF RpcInv, InclusionsOf
      <3>2. Cardinality({t}) = 1
        BY FS_Singleton
      <3> QED
        BY <3>1, <3>2
    <2> QED
      BY <2>1, <2>2
  <1>2. At(c, "ok") /\ call[c].kind = "submit" => \E t \in InclusionsOf(c) : t.success
    BY DEF RpcInv, StageFits, At, InclusionsOf
  <1>3. call[c].kind = "read" => InclusionsOf(c) = {}
    BY DEF RpcInv, TxFits, InclusionsOf
  <1> QED
    BY <1>1, <1>2, <1>3

--------------------------------------------------------------------------------
(* The retry queue                                                         *)

\* One delay was waited for each attempt that failed, in the order of the list.
RetryInv ==
    /\ retryConfig \in RetryConfigs
    /\ retryRun \in [attempt : Nat, outcome : {"running", "returned", "threw"}]
    /\ waited \in Seq(Nat) /\ Len(waited) = retryRun.attempt
    /\ retryRun.outcome = "threw" => retryRun.attempt = retryConfig.maxAttempts
    /\ \A k \in 1 .. Len(waited) : waited[k] = DelayAfter(k - 1)

\* A run starts before its first attempt and has waited for nothing.
LEMMA RetryInitially == RetryInit => RetryInv
  BY DEF RetryInit, RetryInv

\* An attempt that fails waits the delay of its number, and nothing else waits.
LEMMA RetryInvStep == RetryInv /\ [RetryNext]_retryVars => RetryInv'
  <1> SUFFICES ASSUME RetryInv, [RetryNext]_retryVars PROVE RetryInv'
    OBVIOUS
  <1>0. /\ retryConfig \in RetryConfigs
        /\ retryRun \in [attempt : Nat, outcome : {"running", "returned", "threw"}]
        /\ waited \in Seq(Nat) /\ Len(waited) = retryRun.attempt
        /\ \A k \in 1 .. Len(waited) : waited[k] = DelayAfter(k - 1)
    BY DEF RetryInv
  <1>d. UNCHANGED retryConfig => \A k \in Int : DelayAfter(k)' = DelayAfter(k)
    BY DEF DelayAfter
  <1>1. CASE TaskSucceeds \/ UNCHANGED retryVars
    <2>1. UNCHANGED <<retryConfig, waited>> /\ retryRun'.attempt = retryRun.attempt
          /\ retryRun' \in [attempt : Nat, outcome : {"running", "returned", "threw"}]
          /\ (retryRun'.outcome = "threw" => retryRun.outcome = "threw")
      BY <1>0, <1>1 DEF TaskSucceeds, retryVars
    <2> QED
      BY <1>0, <1>d, <2>1 DEF RetryInv
  <1>2. CASE TaskFails /\ retryRun.attempt = retryConfig.maxAttempts
    <2>1. UNCHANGED <<retryConfig, waited>> /\ retryRun'.attempt = retryRun.attempt
          /\ retryRun' \in [attempt : Nat, outcome : {"running", "returned", "threw"}]
      BY <1>0, <1>2 DEF TaskFails
    <2> QED
      BY <1>0, <1>2, <1>d, <2>1 DEF RetryInv
  <1>3. CASE TaskFails /\ retryRun.attempt # retryConfig.maxAttempts
    <2> PICK n \in Nat : n = retryRun.attempt
      BY <1>0
    <2> PICK x : x = DelayAfter(n)
      OBVIOUS
    <2>1. /\ UNCHANGED retryConfig /\ waited' = Append(waited, x) /\ retryRun'.attempt = n + 1
          /\ retryRun' \in [attempt : Nat, outcome : {"running", "returned", "threw"}]
          /\ retryRun'.outcome = "running"
      BY <1>0, <1>3 DEF TaskFails
    <2>2. x \in Nat
      <3>1. /\ retryConfig.delaysMs \in Seq(Nat) /\ Len(retryConfig.delaysMs) \in Nat \ {0}
        BY <1>0, RetryAssumption DEF RetryAssumption
      <3>2. \A k \in 1 .. Len(retryConfig.delaysMs) : retryConfig.delaysMs[k] \in Nat
        BY <3>1
      <3> QED
        BY <3>1, <3>2 DEF DelayAfter
    <2>3. /\ waited' \in Seq(Nat) /\ Len(waited') = n + 1
          /\ \A k \in 1 .. n + 1 : waited'[k] = IF k = n + 1 THEN x ELSE waited[k]
      BY <1>0, <2>1, <2>2
    <2>4. \A k \in 1 .. n + 1 : waited'[k] = DelayAfter(k - 1)
      BY <1>0, <2>3, SMTT(30)
    <2> QED
      BY <1>0, <1>d, <2>1, <2>3, <2>4 DEF RetryInv
  <1> QED
    BY <1>1, <1>2, <1>3 DEF RetryNext

\* What the invariant says of the delays.
LEMMA RetryKept == RetryInv => RetriesAsConfigured
  <1> SUFFICES ASSUME RetryInv PROVE RetriesAsConfigured
    OBVIOUS
  <1> PICK n : n = Len(retryConfig.delaysMs)
    OBVIOUS
  <1>1. n \in Nat /\ n > 0
    BY RetryAssumption DEF RetryAssumption, RetryInv
  <1>2. DOMAIN waited = 1 .. Len(waited) /\ Len(waited) \in Nat
    BY DEF RetryInv
  <1>3. \A k \in 1 .. Len(waited) :
           waited[k] = retryConfig.delaysMs[IF k - 1 < n THEN k - 1 + 1 ELSE n]
    BY DEF RetryInv, DelayAfter
  <1>4. ASSUME NEW k \in DOMAIN waited
        PROVE  \/ k <= n /\ waited[k] = retryConfig.delaysMs[k]
               \/ k > n /\ waited[k] = waited[k - 1]
    <2>1. CASE k <= n
      BY <1>1, <1>2, <1>3, <2>1
    <2>2. CASE k > n
      <3>1. k - 1 \in 1 .. Len(waited)
        BY <1>1, <1>2, <2>2
      <3>2. waited[k - 1] = retryConfig.delaysMs[n]
        <4>1. CASE k - 1 = n
          <5>1. waited[k - 1] = retryConfig.delaysMs[IF k - 1 - 1 < n THEN k - 1 - 1 + 1 ELSE n]
            BY <1>3, <3>1
          <5> QED
            BY <1>1, <4>1, <5>1
        <4>2. CASE k - 1 > n
          <5>1. waited[k - 1] = retryConfig.delaysMs[IF k - 1 - 1 < n THEN k - 1 - 1 + 1 ELSE n]
            BY <1>3, <3>1
          <5> QED
            BY <1>1, <1>2, <4>2, <5>1
        <4> QED
          BY <1>1, <1>2, <2>2, <4>1, <4>2
      <3>3. waited[k] = retryConfig.delaysMs[n]
        BY <1>1, <1>2, <1>3, <2>2
      <3> QED
        BY <2>2, <3>2, <3>3
    <2> QED
      BY <1>1, <1>2, <2>1, <2>2
  <1>5. retryRun.outcome = "threw" => Len(waited) = retryConfig.maxAttempts
    BY DEF RetryInv
  <1> QED
    BY <1>4, <1>5 DEF RetriesAsConfigured

--------------------------------------------------------------------------------
(* The pause switch                                                        *)

\* The log alternates, and its length tells whether the operations are paused.
PauseInv ==
    /\ pauseLog \in Seq([type : {"ContractPaused", "ContractUnpaused"}, admin : PauseAdmins])
    /\ escrowOps \in Seq([op : {"deposit", "release", "refund"}, at : Nat])
    /\ paused \in BOOLEAN
    /\ LogTellsPauses

\* The switch starts open, with empty logs.
LEMMA PauseInitially == PauseInit => PauseInv
  <1> SUFFICES ASSUME PauseInit PROVE PauseInv
    OBVIOUS
  <1>1. paused = FALSE /\ pauseLog = << >> /\ escrowOps = << >>
    BY DEF PauseInit
  <1>2. ~(Len(pauseLog) % 2 = 1)
    BY <1>1
  <1>3. DOMAIN pauseLog = {} /\ DOMAIN escrowOps = {}
    BY <1>1
  <1>4. LogTellsPauses
    BY <1>1, <1>2, <1>3 DEF LogTellsPauses
  <1>5. /\ << >> \in Seq([type : {"ContractPaused", "ContractUnpaused"}, admin : PauseAdmins])
        /\ << >> \in Seq([op : {"deposit", "release", "refund"}, at : Nat])
    OBVIOUS
  <1> QED
    BY <1>1, <1>4, <1>5 DEF PauseInv

\* The parities of two numbers that follow each other.
LEMMA Parity ==
  ASSUME NEW n \in Nat
  PROVE  n % 2 \in {0, 1} /\ ((n + 1) % 2 = 1 <=> n % 2 # 1)
  OBVIOUS

\* Every step of the switch keeps the log alternating.
LEMMA PauseInvStep == PauseInv /\ [PauseNext]_pauseVars => PauseInv'
  <1> SUFFICES ASSUME PauseInv, [PauseNext]_pauseVars PROVE PauseInv'
    OBVIOUS
  <1> PICK n : n = Len(pauseLog)
    OBVIOUS
  <1>0. /\ pauseLog \in Seq([type : {"ContractPaused", "ContractUnpaused"}, admin : PauseAdmins])
        /\ escrowOps \in Seq([op : {"deposit", "release", "refund"}, at : Nat])
        /\ n \in Nat /\ paused \in BOOLEAN /\ DOMAIN pauseLog = 1 .. n
        /\ (paused <=> n % 2 = 1)
        /\ \A k \in 1 .. n : pauseLog[k].type = (IF k % 2 = 1 THEN "ContractPaused" ELSE "ContractUnpaused")
        /\ \A k \in DOMAIN escrowOps : escrowOps[k].at % 2 = 0
    <2>1. /\ pauseLog \in Seq([type : {"ContractPaused", "ContractUnpaused"}, admin : PauseAdmins])
          /\ escrowOps \in Seq([op : {"deposit", "release", "refund"}, at : Nat]) /\ paused \in BOOLEAN
          /\ LogTellsPauses
      BY DEF PauseInv
    <2>2. n \in Nat /\ DOMAIN pauseLog = 1 .. n
      BY <2>1
    <2> QED
      BY <2>1, <2>2 DEF LogTellsPauses
  <1>p. n % 2 \in {0, 1} /\ ((n + 1) % 2 = 1 <=> n % 2 # 1)
    BY <1>0, Parity
  <1>1. ASSUME NEW a \in PauseAdmins, NEW type \in {"ContractPaused", "ContractUnpaused"},
               pauseLog' = Append(pauseLog, [type |-> type, admin |-> a]), UNCHANGED escrowOps,
               type = (IF paused THEN "ContractUnpaused" ELSE "ContractPaused"), paused' = ~paused
        PROVE  PauseInv'
    <2>1. /\ pauseLog' \in Seq([type : {"ContractPaused", "ContractUnpaused"}, admin : PauseAdmins])
          /\ Len(pauseLog') = n + 1 /\ DOMAIN pauseLog' = 1 .. n + 1
          /\ \A k \in 1 .. n + 1 : pauseLog'[k] = IF k = n + 1 THEN [type |-> type, admin |-> a] ELSE pauseLog[k]
      BY <1>0, <1>1
    <2>3. type = (IF (n + 1) % 2 = 1 THEN "ContractPaused" ELSE "ContractUnpaused")
      BY <1>0, <1>1, <1>p
    <2>4. paused' <=> (n + 1) % 2 = 1
      BY <1>0, <1>1, <1>p
    <2>5. \A k \in 1 .. n + 1 : pauseLog'[k].type = (IF k % 2 = 1 THEN "ContractPaused" ELSE "ContractUnpaused")
      <3> SUFFICES ASSUME NEW k \in 1 .. n + 1
                   PROVE  pauseLog'[k].type = (IF k % 2 = 1 THEN "ContractPaused" ELSE "ContractUnpaused")
        OBVIOUS
      <3>1. CASE k = n + 1
        BY <2>1, <2>3, <3>1
      <3>2. CASE k \in 1 .. n
        BY <1>0, <2>1, <3>2
      <3> QED
        BY <1>0, <3>1, <3>2
    <2> QED
      BY <1>0, <1>1, <2>1, <2>4, <2>5 DEF PauseInv, LogTellsPauses
  <1>2. ASSUME NEW a \in PauseAdmins, pause(a) PROVE PauseInv'
    BY <1>1, <1>2 DEF pause
  <1>3. ASSUME NEW a \in PauseAdmins, unpause(a) PROVE PauseInv'
    BY <1>1, <1>3 DEF unpause
  <1>4. ASSUME NEW op \in {"deposit", "release", "refund"}, EscrowOperation(op) PROVE PauseInv'
    <2> PICK o : o = [op |-> op, at |-> n]
      OBVIOUS
    <2>1. escrowOps' = Append(escrowOps, o) /\ UNCHANGED <<paused, pauseLog>> /\ n % 2 = 0
      BY <1>0, <1>p, <1>4 DEF EscrowOperation, requireNotPaused
    <2>2. o \in [op : {"deposit", "release", "refund"}, at : Nat] /\ o.at = n
      BY <1>0
    <2>3. escrowOps' \in Seq([op : {"deposit", "release", "refund"}, at : Nat])
      BY <1>0, <2>1, <2>2
    <2>4. \A k \in DOMAIN escrowOps' : escrowOps'[k] = o \/ (k \in DOMAIN escrowOps /\ escrowOps'[k] = escrowOps[k])
      BY <1>0, <2>1
    <2> QED
      BY <1>0, <2>1, <2>2, <2>3, <2>4 DEF PauseInv, LogTellsPauses
  <1>5. CASE UNCHANGED pauseVars
    BY <1>5 DEF pauseVars, PauseInv, LogTellsPauses
  <1> QED
    BY <1>2, <1>3, <1>4, <1>5 DEF PauseNext

--------------------------------------------------------------------------------
(* The payment API                                                         *)

Statuses == NotifyStatuses \cup {"none", "pending", "cancelled"}
PaymentRow == [status : Statuses, version : Nat]
CreateRow == [pc : {"new", "handle", "cache", "done"}, answer : Creates \cup {Unset}, late : BOOLEAN]
ChangeRow == [pc : {"idle", "loaded", "done"}, payment : Creates \cup {Unset}, row : PaymentRow,
              to : Statuses]

ApiTypes ==
    /\ apiPayments \in [Creates -> PaymentRow]
    /\ keyCache \in Creates \cup {Unset}
    /\ creating \in [Creates -> CreateRow]
    /\ changing \in [Cancels \cup Notifies -> ChangeRow]

\* A payment is created by the request it is named for, which then has not been
\* answered before; answers name payments that exist.
CreateFits(c, r) ==
    /\ r.pc \in {"new", "handle"} => apiPayments[c].status = "none" /\ ~r.late
    /\ r.pc = "cache" => r.answer = c /\ apiPayments[c].status # "none" /\ ~r.late
    /\ r.late => apiPayments[c].status = "none" /\ r.answer \in Existing

\* A change works on a row that was read from a payment that exists; only a
\* cancellation, which read it pending, makes a payment cancelled.
ChangeFits(c, r) ==
    r.pc = "loaded" =>
        /\ r.payment \in Existing
        /\ r.row.version <= apiPayments[r.payment].version
        /\ r.row.version = apiPayments[r.payment].version => r.row = apiPayments[r.payment]
        /\ r.to = "cancelled" /\ "cancelled" \notin NotifyStatuses => c \in Cancels /\ r.row.status = "pending"
        /\ r.to # "none"

ApiInv ==
    /\ ApiTypes
    /\ \A c \in Creates : CreateFits(c, creating[c])
    /\ keyCache # Unset => keyCache \in Existing
    /\ \A c \in Cancels \cup Notifies : ChangeFits(c, changing[c])

\* The API starts without payments, and with no request under way.
LEMMA ApiInitially == ApiInit => ApiInv
  <1> SUFFICES ASSUME ApiInit PROVE ApiInv
    OBVIOUS
  <1>1. NoPayment \in PaymentRow /\ NotChanging.pc = "idle"
    BY DEF NoPayment, PaymentRow, Statuses, NotChanging
  <1>2. NotChanging \in ChangeRow
    BY <1>1 DEF NotChanging, ChangeRow, Statuses
  <1>3. ApiTypes
    BY <1>1, <1>2 DEF ApiInit, ApiTypes, CreateRow
  <1> QED
    BY <1>1, <1>3 DEF ApiInit, ApiInv, CreateFits, ChangeFits, NoPayment

\* A payment that exists goes on existing, and only its new versions differ.
LEMMA PaymentsMove ==
  ASSUME ApiInv, apiPayments' \in [Creates -> PaymentRow],
         \A p \in Creates : \/ apiPayments'[p] = apiPayments[p]
                            \/ /\ apiPayments'[p].status # "none"
                               /\ apiPayments[p].status # "none" =>
                                      apiPayments'[p].version > apiPayments[p].version
  PROVE  /\ Existing \subseteq Existing'
         /\ \A c \in Cancels \cup Notifies, r \in ChangeRow : ChangeFits(c, r) => ChangeFits(c, r)'
  <1>1. Existing \subseteq Existing'
    BY DEF Existing
  <1>2. ASSUME NEW c \in Cancels \cup Notifies, NEW r \in ChangeRow, ChangeFits(c, r), r.pc = "loaded"
        PROVE  ChangeFits(c, r)'
    <2> PICK p : p = r.payment
      OBVIOUS
    <2>1. /\ p \in Existing /\ p \in Creates /\ apiPayments[p].status # "none" /\ r.row.version \in Nat
          /\ apiPayments[p].version \in Nat /\ apiPayments'[p].version \in Nat
      BY <1>2 DEF ChangeFits, Existing, ChangeRow, PaymentRow, ApiInv, ApiTypes
    <2>2. /\ r.row.version <= apiPayments'[p].version
          /\ r.row.version = apiPayments'[p].version => r.row = apiPayments'[p]
      BY <1>2, <2>1 DEF ChangeFits
    <2> QED
      BY <1>1, <1>2, <2>1, <2>2 DEF ChangeFits
  <1> QED
    BY <1>1, <1>2 DEF ChangeFits

\* A step that leaves the payments alone keeps what fits.
LEMMA PaymentsStay ==
  ASSUME UNCHANGED apiPayments
  PROVE  /\ Existing' = Existing
         /\ \A c, r : CreateFits(c, r)' <=> CreateFits(c, r)
         /\ \A c, r : ChangeFits(c, r)' <=> ChangeFits(c, r)
  <1>1. Existing' = Existing
    BY DEF Existing
  <1> QED
    BY <1>1 DEF CreateFits, ChangeFits

\* A request to create a payment keeps the invariant.
LEMMA CreateKeeps ==
  ASSUME ApiInv, NEW c \in Creates, intercept(c) \/ createPayment(c) \/ CacheAnswer(c) \/ CreateFails(c)
  PROVE  ApiInv'
  <1> PICK x : x = creating[c]
    OBVIOUS
  <1>t. /\ apiPayments \in [Creates -> PaymentRow] /\ creating \in [Creates -> CreateRow]
        /\ changing \in [Cancels \cup Notifies -> ChangeRow] /\ UNCHANGED changing
        /\ keyCache \in Creates \cup {Unset}
        /\ x \in CreateRow /\ CreateFits(c, x) /\ (keyCache # Unset => keyCache \in Existing)
        /\ \A d \in Creates : CreateFits(d, creating[d])
        /\ \A d \in Cancels \cup Notifies : ChangeFits(d, changing[d])
    BY DEF ApiInv, ApiTypes, intercept, createPayment, CacheAnswer, CreateFails
  <1>0. ASSUME UNCHANGED apiPayments, NEW r \in CreateRow, creating' = [creating EXCEPT ![c] = r],
               CreateFits(c, r), NEW k \in Creates \cup {Unset}, keyCache' = k, k # Unset => k \in Existing
        PROVE  ApiInv'
    <2>1. ApiTypes'
      BY <1>0, <1>t DEF ApiTypes
    <2>2. \A d \in Creates : CreateFits(d, creating'[d])
      BY <1>0, <1>t
    <2> QED
      BY <1>0, <1>t, <2>1, <2>2, PaymentsStay DEF ApiInv
  <1>1. CASE intercept(c)
    <2> PICK r : r = [pc |-> IF keyCache # Unset THEN "done" ELSE "handle", answer |-> keyCache,
                      late |-> keyCache # Unset]
      OBVIOUS
    <2>1. creating' = [creating EXCEPT ![c] = r] /\ UNCHANGED <<apiPayments, keyCache>> /\ x.pc = "new"
      BY <1>1 DEF intercept
    <2>2. r \in CreateRow /\ CreateFits(c, r)
      BY <1>t, <2>1 DEF CreateRow, CreateFits
    <2> QED
      BY <1>0, <1>t, <2>1, <2>2
  <1>2. CASE createPayment(c)
    <2> PICK r : r = [pc |-> "cache", answer |-> c, late |-> x.late]
      OBVIOUS
    <2> PICK y : y = [status |-> "pending", version |-> 1]
      OBVIOUS
    <2>1. apiPayments' = [apiPayments EXCEPT ![c] = y] /\ UNCHANGED keyCache /\ x.pc = "handle"
      BY <1>2 DEF createPayment
    <2>2. creating' = [creating EXCEPT ![c] = r]
      <3>1. creating' = [[creating EXCEPT ![c] = [x EXCEPT !.pc = "cache"]]
                            EXCEPT ![c] = [[x EXCEPT !.pc = "cache"] EXCEPT !.answer = c]]
        BY <1>2, <1>t DEF createPayment
      <3>2. r = [[x EXCEPT !.pc = "cache"] EXCEPT !.answer = c]
        <4>1. /\ DOMAIN r = {"pc", "answer", "late"} /\ r.pc = "cache" /\ r.answer = c /\ r.late = x.late
          OBVIOUS
        <4> QED
          BY <1>t, <4>1 DEF CreateRow
      <3> QED
        BY <1>t, <3>1, <3>2
    <2>3. y \in PaymentRow /\ y.status # "none" /\ r \in CreateRow
      BY <1>t DEF PaymentRow, Statuses, CreateRow
    <2>4. apiPayments' \in [Creates -> PaymentRow] /\ apiPayments[c].status = "none" /\ ~x.late
      BY <1>t, <2>1, <2>3 DEF CreateFits
    <2>5. /\ Existing \subseteq Existing'
          /\ \A d \in Cancels \cup Notifies : ChangeFits(d, changing[d])'
      <3>1. \A p \in Creates : \/ apiPayments'[p] = apiPayments[p]
                               \/ /\ apiPayments'[p].status # "none"
                                  /\ apiPayments[p].status # "none" =>
                                         apiPayments'[p].version > apiPayments[p].version
        BY <1>t, <2>1, <2>3, <2>4
      <3>2. /\ Existing \subseteq Existing'
            /\ \A d \in Cancels \cup Notifies, z \in ChangeRow : ChangeFits(d, z) => ChangeFits(d, z)'
        BY <2>4, <3>1, PaymentsMove
      <3>3. ASSUME NEW d \in Cancels \cup Notifies PROVE ChangeFits(d, changing[d])'
        <4> PICK z \in ChangeRow : z = changing[d] /\ changing'[d] = z
          BY <1>t
        <4>1. ChangeFits(d, z)'
          BY <1>t, <3>2
        <4> QED
          BY <4>1 DEF ChangeFits
      <3> QED
        BY <3>2, <3>3
    <2>6. ASSUME NEW d \in Creates PROVE CreateFits(d, creating[d])'
      <3>1. CASE d = c
        <4>1. creating'[d] = r /\ apiPayments'[d] = y
          BY <1>t, <2>1, <2>2, <3>1
        <4> QED
          BY <2>3, <2>4, <3>1, <4>1 DEF CreateFits
      <3>2. CASE d # c
        <4>1. creating'[d] = creating[d] /\ apiPayments'[d] = apiPayments[d] /\ CreateFits(d, creating[d])
          BY <1>t, <2>1, <2>2, <3>2
        <4> QED
          BY <2>5, <4>1 DEF CreateFits
      <3> QED
        BY <3>1, <3>2
    <2>7. ApiTypes'
      BY <1>t, <2>1, <2>2, <2>3, <2>4 DEF ApiTypes
    <2> QED
      BY <1>t, <2>1, <2>5, <2>6, <2>7 DEF ApiInv
  <1>3. CASE CacheAnswer(c)
    <2> PICK r : r = [x EXCEPT !.pc = "done"]
      OBVIOUS
    <2>1. /\ creating' = [creating EXCEPT ![c] = r] /\ UNCHANGED apiPayments /\ x.pc = "cache"
          /\ keyCache' = x.answer
      BY <1>3, <1>t DEF CacheAnswer
    <2>2. r \in CreateRow /\ CreateFits(c, r) /\ x.answer = c /\ c \in Existing
      BY <1>t, <2>1 DEF CreateRow, CreateFits, Existing
    <2> QED
      BY <1>0, <1>t, <2>1, <2>2
  <1>4. CASE CreateFails(c)
    <2> PICK r : r = [x EXCEPT !.pc = IF x.pc = "handle" THEN "new" ELSE "done"]
      OBVIOUS
    <2>1. /\ creating' = [creating EXCEPT ![c] = r] /\ UNCHANGED <<apiPayments, keyCache>>
          /\ x.pc \in {"handle", "cache"}
      BY <1>4, <1>t DEF CreateFails
    <2>2. r \in CreateRow /\ CreateFits(c, r)
      BY <1>t, <2>1 DEF CreateRow, CreateFits, Existing
    <2> QED
      BY <1>0, <1>t, <2>1, <2>2
  <1> QED
    BY <1>1, <1>2, <1>3, <1>4

\* A cancellation or notification reads its payment as it is.
LEMMA LoadKeeps ==
  ASSUME ApiInv, NEW c \in Cancels \cup Notifies, NEW p \in Creates,
         \/ c \in Cancels /\ cancelPayment(c, p)
         \/ c \in Notifies /\ handleNotify(c, p)
  PROVE  ApiInv'
  <1>t. /\ apiPayments \in [Creates -> PaymentRow] /\ changing \in [Cancels \cup Notifies -> ChangeRow]
        /\ apiPayments[p] \in PaymentRow
    BY DEF ApiInv, ApiTypes
  <1>1. PICK to : /\ LoadPayment(c, p, to) /\ to # "none"
                  /\ \/ to = "cancelled" /\ c \in Cancels /\ apiPayments[p].status = "pending"
                     \/ to \in NotifyStatuses
    BY ApiAssumption DEF cancelPayment, handleNotify, ApiAssumption
  <1> PICK y \in PaymentRow : y = apiPayments[p]
    BY <1>t
  <1> PICK r : r = [pc |-> "loaded", payment |-> p, row |-> y, to |-> to]
    OBVIOUS
  <1>2. /\ p \in Existing /\ changing' = [changing EXCEPT ![c] = r]
        /\ UNCHANGED <<apiPayments, keyCache, creating>>
    BY <1>1 DEF LoadPayment
  <1>3. r \in ChangeRow
    <2>1. to \in Statuses
      BY <1>1 DEF Statuses
    <2> QED
      BY <2>1 DEF ChangeRow
  <1>4. ChangeFits(c, r)
    <2>1. y.version \in Nat
      BY DEF PaymentRow
    <2> QED
      BY <1>1, <1>2, <2>1 DEF ChangeFits
  <1>5. ApiTypes'
    BY <1>t, <1>2, <1>3 DEF ApiInv, ApiTypes
  <1>6. ASSUME NEW d \in Cancels \cup Notifies PROVE ChangeFits(d, changing[d])'
    <2>1. changing'[d] = (IF d = c THEN r ELSE changing[d]) /\ ChangeFits(d, changing[d])
      BY <1>t, <1>2 DEF ApiInv
    <2>2. ChangeFits(d, changing'[d])
      BY <1>4, <2>1
    <2> QED
      BY <1>2, <2>2, PaymentsStay
  <1>7. ASSUME NEW d \in Creates PROVE CreateFits(d, creating[d])'
    <2>1. CreateFits(d, creating'[d])
      BY <1>2 DEF ApiInv
    <2> QED
      BY <1>2, <2>1, PaymentsStay
  <1> QED
    BY <1>2, <1>5, <1>6, <1>7, PaymentsStay DEF ApiInv

\* A cancellation or notification saves a new version of its payment.
LEMMA SaveKeeps ==
  ASSUME ApiInv, NEW c \in Cancels \cup Notifies, SaveStatus(c)
  PROVE  ApiInv'
  <1> PICK x \in ChangeRow : x = changing[c]
    BY DEF ApiInv, ApiTypes
  <1> PICK p : p = x.payment
    OBVIOUS
  <1>t. /\ apiPayments \in [Creates -> PaymentRow] /\ changing \in [Cancels \cup Notifies -> ChangeRow]
        /\ x.pc = "loaded" /\ ChangeFits(c, x) /\ p \in Existing /\ x.to # "none" /\ p \in Creates
        /\ apiPayments[p] \in PaymentRow /\ apiPayments[p].status # "none"
    BY DEF ApiInv, ApiTypes, SaveStatus, ChangeFits, Existing
  <1> PICK y : y = [status |-> x.to, version |-> apiPayments[p].version + 1]
    OBVIOUS
  <1>1. apiPayments' = [apiPayments EXCEPT ![p] = y] /\ UNCHANGED <<keyCache, creating>>
    BY DEF SaveStatus
  <1>2. /\ y \in PaymentRow /\ y.status # "none" /\ y.version > apiPayments[p].version
    <2>1. apiPayments[p].version \in Nat /\ x.to \in Statuses
      BY <1>t DEF PaymentRow, ChangeRow
    <2>2. y.version = apiPayments[p].version + 1 /\ y.status = x.to
      OBVIOUS
    <2> QED
      BY <1>t, <2>1, <2>2 DEF PaymentRow
  <1> PICK r : r = [x EXCEPT !.pc = "done"]
    OBVIOUS
  <1>3. changing' = [changing EXCEPT ![c] = r] /\ r \in ChangeRow /\ r.pc = "done"
    BY <1>t DEF SaveStatus, ChangeRow
  <1>4. apiPayments' \in [Creates -> PaymentRow]
    BY <1>t, <1>1, <1>2
  <1>5. \A q \in Creates : \/ apiPayments'[q] = apiPayments[q]
                           \/ /\ apiPayments'[q].status # "none"
                              /\ apiPayments[q].status # "none" =>
                                     apiPayments'[q].version > apiPayments[q].version
    BY <1>t, <1>1, <1>2
  <1>6. /\ Existing \subseteq Existing'
        /\ \A d \in Cancels \cup Notifies, z \in ChangeRow : ChangeFits(d, z) => ChangeFits(d, z)'
    BY <1>4, <1>5, PaymentsMove
  <1>7. ASSUME NEW d \in Cancels \cup Notifies PROVE ChangeFits(d, changing[d])'
    <2>1. CASE d = c
      BY <1>t, <1>3, <2>1 DEF ChangeFits
    <2>2. CASE d # c
      <3> PICK z \in ChangeRow : z = changing[d] /\ changing'[d] = z
        BY <1>t, <1>3, <2>2
      <3>1. ChangeFits(d, z)'
        BY <1>6 DEF ApiInv
      <3> QED
        BY <3>1 DEF ChangeFits
    <2> QED
      BY <2>1, <2>2
  <1>8. ASSUME NEW d \in Creates PROVE CreateFits(d, creating[d])'
    <2>1. /\ CreateFits(d, creating[d])
          /\ apiPayments'[d].status = "none" <=> apiPayments[d].status = "none"
      BY <1>t, <1>1, <1>2 DEF ApiInv
    <2> QED
      BY <1>1, <1>6, <2>1 DEF CreateFits
  <1>9. ApiTypes'
    BY <1>t, <1>1, <1>3, <1>4 DEF ApiInv, ApiTypes
  <1> QED
    BY <1>1, <1>6, <1>7, <1>8, <1>9 DEF ApiInv

\* Every step of the API keeps the invariant.
LEMMA ApiInvStep == ApiInv /\ [ApiNext]_apiVars => ApiInv'
  <1> SUFFICES ASSUME ApiInv, [ApiNext]_apiVars PROVE ApiInv'
    OBVIOUS
  <1>1. CASE UNCHANGED apiVars
    <2>1. UNCHANGED <<apiPayments, keyCache, creating, changing>>
      BY <1>1 DEF apiVars
    <2>2. ApiTypes'
      BY <2>1 DEF ApiInv, ApiTypes
    <2>3. \A d \in Creates : CreateFits(d, creating[d])'
      <3>1. \A d \in Creates : CreateFits(d, creating'[d])
        BY <2>1 DEF ApiInv
      <3> QED
        BY <2>1, <3>1, PaymentsStay
    <2>4. \A d \in Cancels \cup Notifies : ChangeFits(d, changing[d])'
      <3>1. \A d \in Cancels \cup Notifies : ChangeFits(d, changing'[d])
        BY <2>1 DEF ApiInv
      <3> QED
        BY <2>1, <3>1, PaymentsStay
    <2> QED
      BY <2>1, <2>2, <2>3, <2>4, PaymentsStay DEF ApiInv
  <1>2. CASE ApiNext
    BY <1>2, CreateKeeps, LoadKeeps, SaveKeeps DEF ApiNext
  <1> QED
    BY <1>1, <1>2

\* What the invariant says of a request that comes late.
LEMMA ApiKept == ApiInv => LateCreatesNothing
  BY DEF ApiInv, CreateFits, LateCreatesNothing

\* The statuses a processor notifies of are decisions: a payment that was
\* cancelled or is still open has none.
ProcessorDecides == {"pending", "cancelled"} \cap NotifyStatuses = {}

\* A decided payment becomes cancelled only by a merchant's cancellation that
\* read it before the decision.
CancelStep ==
    \A p \in Creates :
        (apiPayments[p].status \in NotifyStatuses /\ apiPayments'[p].status = "cancelled") =>
            \E c \in Cancels : changing[c].payment = p /\ changing[c].row.version < apiPayments[p].version

\* Every step of the API is such a step.
LEMMA ApiCancels ==
  ASSUME ProcessorDecides
  PROVE  ApiInv /\ [ApiNext]_apiVars => [CancelStep]_apiVars
  <1> SUFFICES ASSUME ApiInv, ApiNext, NEW p \in Creates, apiPayments[p].status \in NotifyStatuses,
                      apiPayments'[p].status = "cancelled"
               PROVE  \E c \in Cancels : /\ changing[c].payment = p
                                         /\ changing[c].row.version < apiPayments[p].version
    BY DEF CancelStep
  <1>0. /\ "pending" \notin NotifyStatuses /\ "cancelled" \notin NotifyStatuses
        /\ apiPayments'[p] # apiPayments[p] /\ apiPayments \in [Creates -> PaymentRow]
    BY DEF ProcessorDecides, ApiInv, ApiTypes
  <1>1. ASSUME NEW c \in Creates, intercept(c) \/ createPayment(c) \/ CacheAnswer(c) \/ CreateFails(c)
        PROVE  FALSE
    BY <1>0, <1>1 DEF intercept, createPayment, CacheAnswer, CreateFails
  <1>2. ASSUME NEW c, NEW q, cancelPayment(c, q) \/ handleNotify(c, q) PROVE FALSE
    BY <1>0, <1>2 DEF cancelPayment, handleNotify, LoadPayment
  <1>3. PICK c \in Cancels \cup Notifies : SaveStatus(c)
    BY <1>1, <1>2 DEF ApiNext
  <1> PICK x \in ChangeRow : x = changing[c]
    BY DEF ApiInv, ApiTypes
  <1>4. /\ x.pc = "loaded" /\ ChangeFits(c, x)
        /\ apiPayments' = [apiPayments EXCEPT ![x.payment] = [status |-> x.to, version |-> @.version + 1]]
    BY <1>3 DEF SaveStatus, ApiInv
  <1>5. x.payment = p /\ x.to = "cancelled"
    BY <1>0, <1>4
  <1>6. /\ c \in Cancels /\ x.row.status = "pending" /\ x.row.version <= apiPayments[p].version
        /\ x.row.version # apiPayments[p].version
    BY <1>0, <1>4, <1>5 DEF ChangeFits
  <1>7. x.row.version \in Nat /\ apiPayments[p].version \in Nat
    BY <1>0 DEF ChangeRow, PaymentRow
  <1> QED
    BY <1>5, <1>6, <1>7

--------------------------------------------------------------------------------
(* Wallets                                                                 *)

\* The rows of a wallet with address k: a new one, one of the older kind, and
\* one of the older kind that was loaded and saved; and what is loaded of them.
NewRow(k) == [address |-> k, secret |-> <<"encv1", <<"plain", k>>>>, iv |-> FALSE]
OldRow(k) == [address |-> k, secret |-> <<"legacy", <<"plain", k>>>>, iv |-> TRUE]
SavedOldRow(k) == [address |-> k, secret |-> <<"encv1", <<"legacy", <<"plain", k>>>>>>, iv |-> TRUE]
NewEntity(k) == [address |-> k, secret |-> <<"plain", k>>, iv |-> FALSE]

Addresses == Int \ {0}
StoredRows == {NewRow(k) : k \in Addresses} \cup {OldRow(k) : k \in Addresses}
                \cup {SavedOldRow(k) : k \in Addresses}
Entities == {NewEntity(k) : k \in Addresses} \cup {OldRow(k) : k \in Addresses}

ProvisionRow == [pc : {"idle", "conflict", "save", "register", "threw", "done"},
                 user : WalletUsers \cup {NotProvisioning.user}, keypair : Nat]

\* A provision that goes on has a keypair, whose address is stored before it
\* is registered.
ProvisionFits(r) ==
    /\ r.pc \in {"save", "register"} => r.user \in WalletUsers /\ r.keypair > 0
    /\ r.pc = "register" => wallets[r.user].address = r.keypair

WalletInv ==
    /\ wallets \in [WalletUsers -> StoredRows \cup {NoWallet}]
    /\ provisioning \in [Provisions -> ProvisionRow]
    /\ syncing \in [Syncs -> Entities \cup {NoWallet}]
    /\ lastKeypair \in Nat
    /\ \A p \in Provisions : ProvisionFits(provisioning[p])
    /\ \A r \in registry : r.user \in WalletUsers /\ r.address \in Addresses /\ wallets[r.user].address = r.address

\* Loading and saving changes the secret of a row only.
WithSecret(row, s) == [row EXCEPT !.secret = s]
Row(a, s, i) == [address |-> a, secret |-> s, iv |-> i]

\* A row with another secret.
LEMMA SecretReplaced ==
  ASSUME NEW a, NEW s, NEW i, NEW t
  PROVE  WithSecret(Row(a, s, i), t) = Row(a, t, i)
  BY DEF WithSecret, Row

\* The column transformer changes the secret only.
LEMMA Transformed ==
  ASSUME NEW row
  PROVE  /\ Entity(row) = WithSecret(row, fromColumn(row.secret))
         /\ Column(row) = WithSecret(row, toColumn(row.secret))
  BY DEF Entity, Column, WithSecret

\* Loading and saving keeps the address, and the key can be recovered.
LEMMA RowLoaded ==
  ASSUME NEW row \in StoredRows
  PROVE  /\ Entity(row) \in Entities /\ Entity(row).address = row.address
         /\ decryptSecretKey(Entity(row)) = <<"plain", row.address>>
         /\ row.address \in Addresses
  <1>1. CASE row \in {NewRow(k) : k \in Addresses}
    <2>1. PICK k \in Addresses : row = NewRow(k)
      BY <1>1
    <2>2. Entity(row) = NewEntity(k)
      <3>1. row.secret = <<"encv1", <<"plain", k>>>> /\ fromColumn(row.secret) = <<"plain", k>>
        BY <2>1 DEF NewRow, fromColumn, decrypt
      <3>7. row = Row(k, <<"encv1", <<"plain", k>>>>, FALSE)
        BY <2>1 DEF NewRow, Row
      <3>8. Entity(row) = WithSecret(row, <<"plain", k>>)
        BY <3>1, Transformed
      <3>9. WithSecret(Row(k, <<"encv1", <<"plain", k>>>>, FALSE), <<"plain", k>>) = Row(k, <<"plain", k>>, FALSE)
        BY SecretReplaced
      <3> QED
        BY <3>7, <3>8, <3>9 DEF NewEntity, Row
    <2>3. NewEntity(k).address = k /\ row.address = k /\ decryptSecretKey(NewEntity(k)) = <<"plain", k>>
      BY <2>1 DEF NewEntity, NewRow, decryptSecretKey
    <2> QED
      BY <2>2, <2>3 DEF Entities
  <1>2. ASSUME NEW k \in Addresses, row \in {OldRow(k), SavedOldRow(k)}
        PROVE  /\ Entity(row) \in Entities /\ Entity(row).address = row.address
               /\ decryptSecretKey(Entity(row)) = <<"plain", row.address>>
               /\ row.address \in Addresses
    <2>1. Entity(row) = OldRow(k)
      <3>1. CASE row = OldRow(k)
        <4>1. row.secret = <<"legacy", <<"plain", k>>>> /\ fromColumn(row.secret) = <<"legacy", <<"plain", k>>>>
          BY <3>1 DEF OldRow, fromColumn, decrypt
        <4> QED
          BY <3>1, <4>1 DEF Entity, OldRow
      <3>2. CASE row = SavedOldRow(k)
        <4>1. /\ row.secret = <<"encv1", <<"legacy", <<"plain", k>>>>>>
              /\ fromColumn(row.secret) = <<"legacy", <<"plain", k>>>>
          BY <3>2 DEF SavedOldRow, fromColumn, decrypt
        <4>7. row = Row(k, <<"encv1", <<"legacy", <<"plain", k>>>>>>, TRUE)
          BY <3>2 DEF SavedOldRow, Row
        <4>8. Entity(row) = WithSecret(row, <<"legacy", <<"plain", k>>>>)
          BY <4>1, Transformed
        <4>9. WithSecret(Row(k, <<"encv1", <<"legacy", <<"plain", k>>>>>>, TRUE), <<"legacy", <<"plain", k>>>>) = Row(k, <<"legacy", <<"plain", k>>>>, TRUE)
          BY SecretReplaced
        <4> QED
          BY <4>7, <4>8, <4>9 DEF OldRow, Row
      <3> QED
        BY <1>2, <3>1, <3>2
    <2>2. row.address = k /\ OldRow(k).address = k
      BY <1>2 DEF OldRow, SavedOldRow
    <2>3. decryptSecretKey(OldRow(k)) = <<"plain", k>>
      BY DEF OldRow, decryptSecretKey, decryptLegacy
    <2> QED
      BY <2>1, <2>2, <2>3 DEF Entities
  <1> QED
    BY <1>1, <1>2 DEF StoredRows

\* An entity that is saved is a row from which the key can be recovered.
LEMMA EntitySaved ==
  ASSUME NEW e \in Entities
  PROVE  Column(e) \in StoredRows /\ Column(e).address = e.address /\ e.address \in Addresses
  <1>1. CASE e \in {NewEntity(k) : k \in Addresses}
    <2>1. PICK k \in Addresses : e = NewEntity(k)
      BY <1>1
    <2>2. e.secret = <<"plain", k>> /\ toColumn(e.secret) = <<"encv1", <<"plain", k>>>>
      BY <2>1 DEF NewEntity, toColumn, encrypt
    <2>3. Column(e) = NewRow(k)
      <3>7. e = Row(k, <<"plain", k>>, FALSE)
        BY <2>1 DEF NewEntity, Row
      <3>8. Column(e) = WithSecret(e, <<"encv1", <<"plain", k>>>>)
        BY <2>2, Transformed
      <3>9. WithSecret(Row(k, <<"plain", k>>, FALSE), <<"encv1", <<"plain", k>>>>) = Row(k, <<"encv1", <<"plain", k>>>>, FALSE)
        BY SecretReplaced
      <3> QED
        BY <3>7, <3>8, <3>9 DEF NewRow, Row
    <2>4. NewRow(k).address = k /\ e.address = k
      BY <2>1 DEF NewRow, NewEntity
    <2> QED
      BY <2>3, <2>4 DEF StoredRows
  <1>2. CASE e \in {OldRow(k) : k \in Addresses}
    <2>1. PICK k \in Addresses : e = OldRow(k)
      BY <1>2
    <2>2. e.secret = <<"legacy", <<"plain", k>>>> /\ toColumn(e.secret) = <<"encv1", <<"legacy", <<"plain", k>>>>>>
      BY <2>1 DEF OldRow, toColumn, encrypt
    <2>3. Column(e) = SavedOldRow(k)
      <3>7. e = Row(k, <<"legacy", <<"plain", k>>>>, TRUE)
        BY <2>1 DEF OldRow, Row
      <3>8. Column(e) = WithSecret(e, <<"encv1", <<"legacy", <<"plain", k>>>>>>)
        BY <2>2, Transformed
      <3>9. WithSecret(Row(k, <<"legacy", <<"plain", k>>>>, TRUE), <<"encv1", <<"legacy", <<"plain", k>>>>>>) = Row(k, <<"encv1", <<"legacy", <<"plain", k>>>>>>, TRUE)
        BY SecretReplaced
      <3> QED
        BY <3>7, <3>8, <3>9 DEF SavedOldRow, Row
    <2>4. SavedOldRow(k).address = k /\ e.address = k
      BY <2>1 DEF OldRow, SavedOldRow
    <2> QED
      BY <2>3, <2>4 DEF StoredRows
  <1> QED
    BY <1>1, <1>2 DEF Entities

\* The wallets start with the older rows only.
LEMMA WalletInitially == WalletInit => WalletInv
  <1> SUFFICES ASSUME WalletInit PROVE WalletInv
    OBVIOUS
  <1>1. \A u \in LegacyUsers : LegacyAddress[u] \in Addresses
    BY WalletAssumption DEF WalletAssumption, Addresses
  <1>2. wallets \in [WalletUsers -> StoredRows \cup {NoWallet}]
    <2>1. \A u \in LegacyUsers : OldRow(LegacyAddress[u]) \in StoredRows
      BY <1>1 DEF StoredRows
    <2>2. wallets = [u \in WalletUsers |-> IF u \in LegacyUsers THEN OldRow(LegacyAddress[u]) ELSE NoWallet]
      BY DEF WalletInit, OldRow
    <2> QED
      BY <2>1, <2>2
  <1>3. NotProvisioning \in ProvisionRow /\ NotProvisioning.pc = "idle"
    <2> PICK u : u = NotProvisioning.user
      OBVIOUS
    <2>1. NotProvisioning = [pc |-> "idle", user |-> u, keypair |-> 0]
      BY DEF NotProvisioning
    <2> QED
      BY <2>1 DEF ProvisionRow
  <1> QED
    BY <1>2, <1>3 DEF WalletInit, WalletInv, ProvisionFits

\* A stored address stays: a step that keeps the addresses of stored rows keeps
\* what is registered and what provisions rely on.
LEMMA AddressesStay ==
  ASSUME WalletInv, \A u \in WalletUsers : wallets[u] # NoWallet => wallets'[u].address = wallets[u].address
  PROVE  /\ \A r \in ProvisionRow : ProvisionFits(r) => ProvisionFits(r)'
         /\ \A r \in registry : wallets'[r.user].address = r.address
  <1>1. \A u \in WalletUsers : wallets[u].address # 0 => wallets[u] # NoWallet
    BY DEF NoWallet
  <1>2. \A r \in ProvisionRow : ProvisionFits(r) => ProvisionFits(r)'
    <2> SUFFICES ASSUME NEW r \in ProvisionRow, ProvisionFits(r) PROVE ProvisionFits(r)'
      OBVIOUS
    <2>1. r.pc = "register" => /\ r.user \in WalletUsers /\ r.keypair \in Nat /\ r.keypair > 0
                               /\ wallets[r.user].address = r.keypair
      BY DEF ProvisionFits, ProvisionRow
    <2>2. r.pc = "register" => wallets'[r.user].address = r.keypair
      BY <1>1, <2>1
    <2> QED
      BY <2>2 DEF ProvisionFits
  <1>3. \A r \in registry : wallets'[r.user].address = r.address
    BY <1>1 DEF WalletInv, Addresses
  <1> QED
    BY <1>2, <1>3

\* Every step of the wallets keeps the invariant.
LEMMA WalletInvStep == WalletInv /\ [WalletNext]_walletVars => WalletInv'
  <1> SUFFICES ASSUME WalletInv, [WalletNext]_walletVars PROVE WalletInv'
    OBVIOUS
  <1>t. /\ wallets \in [WalletUsers -> StoredRows \cup {NoWallet}]
        /\ provisioning \in [Provisions -> ProvisionRow]
        /\ syncing \in [Syncs -> Entities \cup {NoWallet}] /\ lastKeypair \in Nat
        /\ \A p \in Provisions : ProvisionFits(provisioning[p])
        /\ \A r \in registry :
               r.user \in WalletUsers /\ r.address \in Addresses /\ wallets[r.user].address = r.address
    BY DEF WalletInv
  <1>n. NotProvisioning \in ProvisionRow /\ NotProvisioning.pc = "idle"
    <2> PICK u : u = NotProvisioning.user
      OBVIOUS
    <2>1. NotProvisioning = [pc |-> "idle", user |-> u, keypair |-> 0]
      BY DEF NotProvisioning
    <2> QED
      BY <2>1 DEF ProvisionRow
  \* The steps of one provision.
  <1>0. ASSUME NEW p \in Provisions, NEW r \in ProvisionRow, ProvisionFits(r)',
               provisioning' = [provisioning EXCEPT ![p] = r],
               wallets' \in [WalletUsers -> StoredRows \cup {NoWallet}],
               \A u \in WalletUsers : wallets[u] # NoWallet => wallets'[u].address = wallets[u].address,
               lastKeypair' \in Nat, UNCHANGED syncing,
               \A x \in registry' : \/ x \in registry
                                    \/ /\ x.user \in WalletUsers /\ x.address \in Addresses
                                       /\ wallets'[x.user].address = x.address
        PROVE  WalletInv'
    <2>1. /\ \A q \in ProvisionRow : ProvisionFits(q) => ProvisionFits(q)'
          /\ \A x \in registry : wallets'[x.user].address = x.address
      BY <1>0, AddressesStay
    <2>2. ASSUME NEW q \in Provisions PROVE ProvisionFits(provisioning[q])'
      <3>1. CASE q = p
        BY <1>0, <1>t, <3>1 DEF ProvisionFits
      <3>2. CASE q # p
        <4> PICK z \in ProvisionRow : z = provisioning[q] /\ provisioning'[q] = z
          BY <1>0, <1>t, <3>2
        <4>1. ProvisionFits(z)'
          BY <1>t, <2>1
        <4> QED
          BY <4>1 DEF ProvisionFits
      <3> QED
        BY <3>1, <3>2
    <2>3. provisioning' \in [Provisions -> ProvisionRow]
      BY <1>0, <1>t
    <2> QED
      BY <1>0, <1>t, <2>1, <2>2, <2>3 DEF WalletInv
  <1>1. ASSUME NEW p \in Provisions, NEW u \in WalletUsers, BeginProvision(p, u) PROVE WalletInv'
    <2> PICK x \in ProvisionRow : x = provisioning[p]
      BY <1>t
    <2>1. UNCHANGED <<wallets, syncing, registry>>
      BY <1>1 DEF BeginProvision
    <2>2. PICK r \in ProvisionRow : /\ provisioning' = [provisioning EXCEPT ![p] = r]
                                    /\ r.pc = "conflict" \/ (r.pc = "save" /\ r.user = u /\ r.keypair > 0)
                                    /\ lastKeypair' \in Nat
      <3>1. CASE wallets[u] # NoWallet
        <4> PICK r : r = [x EXCEPT !.pc = "conflict"]
          OBVIOUS
        <4>1. /\ provisioning' = [provisioning EXCEPT ![p] = r] /\ UNCHANGED lastKeypair
          BY <1>1, <3>1 DEF BeginProvision
        <4>2. r \in ProvisionRow /\ r.pc = "conflict"
          BY DEF ProvisionRow
        <4> QED
          BY <1>t, <4>1, <4>2
      <3>2. CASE ~(wallets[u] # NoWallet)
        <4> PICK r : r = [pc |-> "save", user |-> u, keypair |-> lastKeypair + 1]
          OBVIOUS
        <4>1. provisioning' = [provisioning EXCEPT ![p] = r] /\ lastKeypair' = lastKeypair + 1
          BY <1>1, <3>2 DEF BeginProvision
        <4>2. r \in ProvisionRow /\ r.pc = "save" /\ r.user = u /\ r.keypair > 0
          BY <1>t DEF ProvisionRow
        <4>3. lastKeypair' \in Nat
          BY <1>t, <4>1
        <4> QED
          BY <4>1, <4>2, <4>3
      <3> QED
        BY <3>1, <3>2
    <2>3. ProvisionFits(r)'
      BY <2>2 DEF ProvisionFits
    <2> QED
      BY <1>0, <1>t, <2>1, <2>2, <2>3
  <1>2. ASSUME NEW p \in Provisions, SaveWallet(p) PROVE WalletInv'
    <2> PICK x \in ProvisionRow : x = provisioning[p]
      BY <1>t
    <2> PICK u : u = x.user
      OBVIOUS
    <2> PICK k : k = x.keypair
      OBVIOUS
    <2>1. /\ x.pc = "save" /\ u \in WalletUsers /\ k \in Nat /\ k > 0 /\ UNCHANGED <<syncing, registry, lastKeypair>>
      BY <1>2, <1>t DEF SaveWallet, ProvisionFits, ProvisionRow
    <2>2. CASE wallets[u] = NoWallet
      <3> PICK r : r = [x EXCEPT !.pc = "register"]
        OBVIOUS
      <3> PICK row : row = Column([address |-> k, secret |-> <<"plain", k>>, iv |-> FALSE])
        OBVIOUS
      <3>1. row \in StoredRows /\ row.address = k
        <4>1. NewEntity(k) \in Entities /\ NewEntity(k).address = k
          <5>1. k \in Addresses
            BY <2>1 DEF Addresses
          <5>2. NewEntity(k).address = k
            BY DEF NewEntity
          <5> QED
            BY <5>1, <5>2 DEF Entities
        <4>2. row = Column(NewEntity(k))
          BY DEF NewEntity
        <4> QED
          BY <4>1, <4>2, EntitySaved
      <3>2. /\ wallets' = [wallets EXCEPT ![u] = row] /\ provisioning' = [provisioning EXCEPT ![p] = r]
        BY <1>2, <2>2 DEF SaveWallet
      <3>3. r \in ProvisionRow /\ r.pc = "register" /\ r.user = u /\ r.keypair = k
        BY DEF ProvisionRow
      <3>4. wallets'[u].address = k /\ wallets' \in [WalletUsers -> StoredRows \cup {NoWallet}]
        BY <1>t, <2>1, <3>1, <3>2
      <3>5. ProvisionFits(r)'
        BY <2>1, <3>3, <3>4 DEF ProvisionFits
      <3>6. \A v \in WalletUsers : wallets[v] # NoWallet => wallets'[v].address = wallets[v].address
        BY <1>t, <2>2, <3>2
      <3> QED
        BY <1>0, <1>t, <2>1, <3>2, <3>3, <3>4, <3>5, <3>6
    <2>3. CASE wallets[u] # NoWallet
      <3> PICK r : r = [x EXCEPT !.pc = "threw"]
        OBVIOUS
      <3>1. provisioning' = [provisioning EXCEPT ![p] = r] /\ UNCHANGED wallets
        BY <1>2, <2>3 DEF SaveWallet
      <3>2. r \in ProvisionRow /\ r.pc = "threw"
        BY DEF ProvisionRow
      <3>3. ProvisionFits(r)'
        BY <3>2 DEF ProvisionFits
      <3> QED
        BY <1>0, <1>t, <2>1, <3>1, <3>2, <3>3
    <2> QED
      BY <2>2, <2>3
  <1>3. ASSUME NEW p \in Provisions, RegisterUser(p) PROVE WalletInv'
    <2> PICK x \in ProvisionRow : x = provisioning[p]
      BY <1>t
    <2> PICK r : r = [x EXCEPT !.pc = "done"]
      OBVIOUS
    <2>1. /\ x.pc = "register" /\ x.user \in WalletUsers /\ x.keypair \in Addresses
          /\ wallets[x.user].address = x.keypair
      BY <1>3, <1>t DEF RegisterUser, ProvisionFits, ProvisionRow, Addresses
    <2>2. /\ provisioning' = [provisioning EXCEPT ![p] = r] /\ UNCHANGED <<wallets, syncing, lastKeypair>>
      BY <1>3 DEF RegisterUser
    <2>3. \A y \in registry' : y \in registry \/ (y.user = x.user /\ y.address = x.keypair)
      <3>1. /\ [user |-> x.user, address |-> x.keypair, by |-> "contract"].user = x.user
            /\ [user |-> x.user, address |-> x.keypair, by |-> "contract"].address = x.keypair
            /\ [user |-> x.user, address |-> x.keypair, by |-> "event"].user = x.user
            /\ [user |-> x.user, address |-> x.keypair, by |-> "event"].address = x.keypair
        OBVIOUS
      <3>2. registry' \subseteq registry \cup {[user |-> x.user, address |-> x.keypair, by |-> "contract"],
                                               [user |-> x.user, address |-> x.keypair, by |-> "event"]}
        BY <1>3 DEF RegisterUser
      <3> QED
        BY <3>1, <3>2
    <2>4. r \in ProvisionRow /\ r.pc = "done"
      BY DEF ProvisionRow
    <2>5. ProvisionFits(r)'
      BY <2>4 DEF ProvisionFits
    <2> QED
      BY <1>0, <1>t, <2>1, <2>2, <2>3, <2>4, <2>5
  <1>4. CASE WalletRestart
    <2>1. /\ UNCHANGED <<wallets, registry, lastKeypair>>
          /\ syncing' = [s \in Syncs |-> NoWallet]
          /\ provisioning' \in [Provisions -> ProvisionRow]
          /\ \A p \in Provisions : provisioning'[p] \in {provisioning[p], NotProvisioning}
      BY <1>4, <1>t, <1>n DEF WalletRestart
    <2>2. ASSUME NEW p \in Provisions PROVE ProvisionFits(provisioning[p])'
      BY <1>n, <1>t, <2>1 DEF ProvisionFits
    <2> QED
      BY <1>t, <2>1, <2>2 DEF WalletInv
  <1>5. ASSUME NEW s \in Syncs, NEW u \in WalletUsers, LoadWallet(s, u) PROVE WalletInv'
    <2>1. /\ wallets[u] \in StoredRows /\ syncing' = [syncing EXCEPT ![s] = Entity(wallets[u])]
          /\ UNCHANGED <<wallets, provisioning, registry, lastKeypair>>
      BY <1>5, <1>t DEF LoadWallet
    <2>2. Entity(wallets[u]) \in Entities
      BY <2>1, RowLoaded
    <2> QED
      BY <1>t, <2>1, <2>2 DEF WalletInv, ProvisionFits
  <1>6. ASSUME NEW s \in Syncs, SaveSynced(s) PROVE WalletInv'
    <2> PICK e \in Entities : e = syncing[s]
      BY <1>6, <1>t DEF SaveSynced
    <2> PICK row : row = Column(e)
      OBVIOUS
    <2>1. /\ wallets' = [u \in WalletUsers |-> IF wallets[u].address = e.address THEN row ELSE wallets[u]]
          /\ syncing' = [syncing EXCEPT ![s] = NoWallet] /\ UNCHANGED <<provisioning, registry, lastKeypair>>
      BY <1>6 DEF SaveSynced
    <2>2. row \in StoredRows /\ row.address = e.address
      BY EntitySaved
    <2>3. \A u \in WalletUsers : wallets[u] # NoWallet => wallets'[u].address = wallets[u].address
      BY <2>1, <2>2
    <2>4. wallets' \in [WalletUsers -> StoredRows \cup {NoWallet}] /\ syncing' \in [Syncs -> Entities \cup {NoWallet}]
      BY <1>t, <2>1, <2>2
    <2>5. /\ \A q \in ProvisionRow : ProvisionFits(q) => ProvisionFits(q)'
          /\ \A x \in registry : wallets'[x.user].address = x.address
      BY <2>3, AddressesStay
    <2>6. ASSUME NEW q \in Provisions PROVE ProvisionFits(provisioning[q])'
      <3> PICK z \in ProvisionRow : z = provisioning[q] /\ provisioning'[q] = z
        BY <1>t, <2>1
      <3>1. ProvisionFits(z)'
        BY <1>t, <2>5
      <3> QED
        BY <3>1 DEF ProvisionFits
    <2> QED
      BY <1>t, <2>1, <2>4, <2>5, <2>6 DEF WalletInv
  <1>7. CASE UNCHANGED walletVars
    BY <1>7, <1>t DEF walletVars, WalletInv, ProvisionFits
  <1> QED
    BY <1>1, <1>2, <1>3, <1>4, <1>5, <1>6, <1>7 DEF WalletNext

\* What the invariant says of secrets and registrations.
LEMMA WalletKept == WalletInv => SecretsRecoverable /\ RegisteredIsStored
  BY RowLoaded DEF WalletInv, SecretsRecoverable, RegisteredIsStored

--------------------------------------------------------------------------------
(* Preferences                                                             *)

\* The items of an update that are written and not written again by a later item.
Written(items, next) ==
    {k \in 1 .. next - 1 : \A j \in 1 .. next - 1 : j > k => items[j].pair # items[k].pair}
InForce(item) ==
    item.pair \in DOMAIN prefs /\ (prefs[item.pair] <=> item.pair[1] = "in_app" \/ item.enabled)

PrefTypes ==
    /\ DOMAIN prefs \subseteq Pairs /\ \A p \in DOMAIN prefs : prefs[p] \in BOOLEAN
    /\ updating \in [PrefCallers -> [pc : {"idle", "writing", "refused", "threw", "done"}, next : Nat]]

\* An update that writes was checked, is within its items, and runs beside another
\* only if both are noted; alone, what it has written is in force.
UpdateFits(c) ==
    /\ updating[c].pc = "idle" => updating[c].next = 1
    /\ updating[c].pc = "writing" =>
           /\ Validates(PrefUpdates[c])
           /\ updating[c].next \in 1 .. Len(PrefUpdates[c]) + 1
           /\ \A d \in PrefCallers : d # c /\ updating[d].pc = "writing" => c \in overlapped
           /\ c \notin overlapped =>
                  \A k \in Written(PrefUpdates[c], updating[c].next) : InForce(PrefUpdates[c][k])

PrefInv == PrefTypes /\ \A c \in PrefCallers : UpdateFits(c)

\* The preferences start empty, with no update under way.
LEMMA PrefInitially == PrefInit => PrefInv
  <1> SUFFICES ASSUME PrefInit PROVE PrefInv
    OBVIOUS
  <1>1. DOMAIN prefs = {}
    BY DEF PrefInit
  <1>2. PrefTypes
    BY <1>1 DEF PrefInit, PrefTypes
  <1> QED
    BY <1>2 DEF PrefInit, PrefInv, UpdateFits

\* The items of an update.
LEMMA UpdateItems ==
  ASSUME NEW c \in PrefCallers
  PROVE  /\ Len(PrefUpdates[c]) \in Nat /\ DOMAIN PrefUpdates[c] = 1 .. Len(PrefUpdates[c])
         /\ \A k \in 1 .. Len(PrefUpdates[c]) :
                PrefUpdates[c][k].pair \in Pairs /\ PrefUpdates[c][k].enabled \in BOOLEAN
  <1>1. PrefUpdates[c] \in Seq([pair : Channels \X PrefEvents, enabled : BOOLEAN])
    BY PrefAssumption DEF PrefAssumption, PrefCallers
  <1>2. \A k \in 1 .. Len(PrefUpdates[c]) : PrefUpdates[c][k] \in [pair : Channels \X PrefEvents, enabled : BOOLEAN]
    <2> PICK S : S = [pair : Channels \X PrefEvents, enabled : BOOLEAN]
      OBVIOUS
    <2>1. PrefUpdates[c] \in Seq(S)
      BY <1>1
    <2>2. \A k \in 1 .. Len(PrefUpdates[c]) : PrefUpdates[c][k] \in S
      BY ONLY <2>1
    <2> QED
      BY <2>2
  <1>3. Len(PrefUpdates[c]) \in Nat /\ DOMAIN PrefUpdates[c] = 1 .. Len(PrefUpdates[c])
    BY <1>1
  <1> QED
    BY <1>2, <1>3 DEF Pairs

\* Every step of the updates keeps the invariant.
LEMMA PrefInvStep == PrefInv /\ [PrefNext]_prefVars => PrefInv'
  <1> SUFFICES ASSUME PrefInv, [PrefNext]_prefVars PROVE PrefInv'
    OBVIOUS
  <1>t. /\ DOMAIN prefs \subseteq Pairs /\ \A p \in DOMAIN prefs : prefs[p] \in BOOLEAN
        /\ updating \in [PrefCallers -> [pc : {"idle", "writing", "refused", "threw", "done"}, next : Nat]]
        /\ \A d \in PrefCallers : UpdateFits(d)
    BY DEF PrefInv, PrefTypes
  \* Steps that leave the preferences alone.
  <1>0. ASSUME UNCHANGED prefs, NEW c \in PrefCallers,
               NEW r \in [pc : {"idle", "writing", "refused", "threw", "done"}, next : Nat],
               updating' = [updating EXCEPT ![c] = r], r.pc # "writing", r.pc = "idle" => r.next = 1,
               overlapped \ {c} \subseteq overlapped'
        PROVE  PrefInv'
    <2>1. ASSUME NEW d \in PrefCallers PROVE UpdateFits(d)'
      <3>1. CASE d = c
        BY <1>0, <1>t, <3>1 DEF UpdateFits
      <3>2. CASE d # c
        <4>1. updating'[d] = updating[d] /\ UpdateFits(d) /\ (d \in overlapped => d \in overlapped')
          BY <1>0, <1>t, <3>2
        <4>2. \A e \in PrefCallers : updating'[e].pc = "writing" => updating[e].pc = "writing"
          BY <1>0, <1>t
        <4>3. \A k : InForce(PrefUpdates[d][k])' <=> InForce(PrefUpdates[d][k])
          BY <1>0 DEF InForce
        <4> QED
          BY <4>1, <4>2, <4>3 DEF UpdateFits
      <3> QED
        BY <3>1, <3>2
    <2>2. PrefTypes'
      BY <1>0, <1>t DEF PrefTypes
    <2> QED
      BY <2>1, <2>2 DEF PrefInv
  <1>1. ASSUME NEW c \in PrefCallers, BeginUpdate(c) PROVE PrefInv'
    <2> PICK r : r = [updating[c] EXCEPT !.pc = IF Validates(PrefUpdates[c]) THEN "writing" ELSE "refused"]
      OBVIOUS
    <2>1. /\ updating' = [updating EXCEPT ![c] = r] /\ updating[c].pc = "idle" /\ updating[c].next = 1
          /\ UNCHANGED prefs /\ overlapped \subseteq overlapped'
      BY <1>1, <1>t DEF BeginUpdate, UpdateFits
    <2>2. /\ r \in [pc : {"idle", "writing", "refused", "threw", "done"}, next : Nat]
          /\ r.next = 1 /\ r.pc = IF Validates(PrefUpdates[c]) THEN "writing" ELSE "refused"
      BY <1>t, <2>1
    <2>3. CASE ~Validates(PrefUpdates[c])
      BY <1>0, <2>1, <2>2, <2>3
    <2>4. CASE Validates(PrefUpdates[c])
      <3>1. PrefTypes'
        BY <1>t, <2>1, <2>2 DEF PrefTypes
      <3>2. ASSUME NEW d \in PrefCallers, d # c, updating[d].pc = "writing"
            PROVE  d \in overlapped' /\ c \in overlapped'
        BY <1>1, <3>2 DEF BeginUpdate, Running
      <3>3. UpdateFits(c)'
        <4>1. updating'[c] = r /\ Len(PrefUpdates[c]) \in Nat
          BY <1>t, <2>1, UpdateItems
        <4>2. 1 \in 1 .. Len(PrefUpdates[c]) + 1 /\ 1 .. 1 - 1 = {}
          BY <4>1
        <4>3. \A d \in PrefCallers : d # c /\ updating'[d].pc = "writing" => c \in overlapped'
          BY <1>t, <2>1, <3>2
        <4> QED
          BY <2>2, <2>4, <4>1, <4>2, <4>3 DEF UpdateFits, Written
      <3>4. ASSUME NEW d \in PrefCallers, d # c PROVE UpdateFits(d)'
        <4>1. updating'[d] = updating[d] /\ UpdateFits(d) /\ (d \in overlapped => d \in overlapped')
          BY <1>t, <2>1, <3>4
        <4>2. \A k : InForce(PrefUpdates[d][k])' <=> InForce(PrefUpdates[d][k])
          BY <2>1 DEF InForce
        <4>3. \A e \in PrefCallers : e # d /\ updating'[e].pc = "writing" /\ updating[d].pc = "writing" =>
                  d \in overlapped'
          <5> SUFFICES ASSUME NEW e \in PrefCallers, e # d, updating'[e].pc = "writing", updating[d].pc = "writing"
                       PROVE  d \in overlapped'
            OBVIOUS
          <5>1. CASE e = c
            BY <3>2, <3>4
          <5>2. CASE e # c
            <6>1. updating[e].pc = "writing"
              BY <1>t, <2>1, <5>2
            <6> QED
              BY <4>1, <6>1 DEF UpdateFits
          <5> QED
            BY <5>1, <5>2
        <4> QED
          BY <4>1, <4>2, <4>3 DEF UpdateFits
      <3> QED
        BY <3>1, <3>3, <3>4 DEF PrefInv
    <2> QED
      BY <2>3, <2>4
  <1>2. ASSUME NEW c \in PrefCallers, UpsertItem(c) PROVE PrefInv'
    <2> PICK n : n = updating[c].next
      OBVIOUS
    <2> PICK items : items = PrefUpdates[c]
      OBVIOUS
    <2> PICK r : r = [updating[c] EXCEPT !.next = n + 1]
      OBVIOUS
    <2>1. /\ updating' = [updating EXCEPT ![c] = r] /\ updating[c].pc = "writing" /\ n <= Len(items)
          /\ UNCHANGED overlapped
          /\ Upsert(items[n].pair, items[n].pair[1] = "in_app" \/ items[n].enabled)
      BY <1>2 DEF UpsertItem
    <2>2. /\ n \in Nat /\ r \in [pc : {"idle", "writing", "refused", "threw", "done"}, next : Nat]
          /\ r.pc = "writing" /\ r.next = n + 1
      BY <1>t, <2>1
    <2>3. /\ Len(items) \in Nat /\ n \in 1 .. Len(items) /\ items[n].pair \in Pairs
          /\ UpdateFits(c)
      BY <1>t, <2>1, <2>2, UpdateItems DEF UpdateFits
    <2>4. /\ DOMAIN prefs' = DOMAIN prefs \cup {items[n].pair}
          /\ \A p \in DOMAIN prefs' :
                 prefs'[p] = IF p = items[n].pair THEN items[n].pair[1] = "in_app" \/ items[n].enabled ELSE prefs[p]
      BY <2>1 DEF Upsert
    <2>5. PrefTypes'
      <3>1. DOMAIN prefs' \subseteq Pairs
        BY <1>t, <2>3, <2>4
      <3>2. \A p \in DOMAIN prefs' : prefs'[p] \in BOOLEAN
        BY <1>t, <2>4
      <3> QED
        BY <1>t, <2>1, <2>2, <3>1, <3>2 DEF PrefTypes
    <2>6. UpdateFits(c)'
      <3>1. updating'[c] = r /\ r.next \in 1 .. Len(items) + 1
        BY <1>t, <2>1, <2>2, <2>3
      <3>2. \A d \in PrefCallers : d # c /\ updating'[d].pc = "writing" => c \in overlapped'
        BY <1>t, <2>1, <2>3 DEF UpdateFits
      <3>3. ASSUME c \notin overlapped, NEW k \in Written(items, n + 1) PROVE InForce(items[k])'
        <4>1. /\ k \in 1 .. n
              /\ \A j \in 1 .. n : j > k => items[j].pair # items[k].pair
          BY <2>2, <3>3 DEF Written
        <4>2. CASE k = n
          BY <2>4, <4>2 DEF InForce
        <4>3. CASE k # n
          <5>1. k \in Written(items, n)
            BY <2>2, <4>1, <4>3 DEF Written
          <5>2. InForce(items[k])
            BY <2>1, <2>3, <3>3, <5>1 DEF UpdateFits
          <5>3. items[n].pair # items[k].pair
            BY ONLY <2>2, <4>1, <4>3
          <5> QED
            BY <2>4, <5>2, <5>3 DEF InForce
        <4> QED
          BY <4>2, <4>3
      <3> QED
        BY <2>1, <2>2, <2>3, <3>1, <3>2, <3>3 DEF UpdateFits
    <2>7. ASSUME NEW d \in PrefCallers, d # c PROVE UpdateFits(d)'
      <3>1. updating'[d] = updating[d] /\ UpdateFits(d)
        BY <1>t, <2>1, <2>7
      <3>2. updating[d].pc = "writing" => d \in overlapped
        BY <2>1, <2>7, <3>1 DEF UpdateFits
      <3>3. \A e \in PrefCallers : updating'[e].pc = "writing" => updating[e].pc = "writing"
        BY <1>t, <2>1, <2>2
      <3> QED
        BY <2>1, <3>1, <3>2, <3>3 DEF UpdateFits
    <2> QED
      BY <2>5, <2>6, <2>7 DEF PrefInv
  <1>3. ASSUME NEW c \in PrefCallers, UpsertThrows(c) PROVE PrefInv'
    <2> PICK r : r = [updating[c] EXCEPT !.pc = "threw"]
      OBVIOUS
    <2>1. updating' = [updating EXCEPT ![c] = r] /\ UNCHANGED <<prefs, overlapped>>
      BY <1>3 DEF UpsertThrows
    <2>2. r \in [pc : {"idle", "writing", "refused", "threw", "done"}, next : Nat] /\ r.pc = "threw"
      BY <1>t
    <2> QED
      BY <1>0, <2>1, <2>2
  <1>4. ASSUME NEW c \in PrefCallers, EndUpdate(c) PROVE PrefInv'
    <2> PICK r : r = [pc |-> "done", next |-> 1]
      OBVIOUS
    <2>2. r \in [pc : {"idle", "writing", "refused", "threw", "done"}, next : Nat] /\ r.pc = "done" /\ r.next = 1
      OBVIOUS
    <2>1. updating' = [updating EXCEPT ![c] = r] /\ UNCHANGED <<prefs, overlapped>>
      BY <1>4 DEF EndUpdate
    <2> QED
      BY <1>0, <2>1, <2>2
  <1>5. ASSUME NEW c \in PrefCallers, SendAgain(c) PROVE PrefInv'
    <2> PICK r : r = [pc |-> "idle", next |-> 1]
      OBVIOUS
    <2>2. r \in [pc : {"idle", "writing", "refused", "threw", "done"}, next : Nat] /\ r.pc = "idle" /\ r.next = 1
      OBVIOUS
    <2>1. updating' = [updating EXCEPT ![c] = r] /\ UNCHANGED prefs
          /\ overlapped' = overlapped \ {c}
      BY <1>5 DEF SendAgain
    <2> QED
      BY <1>0, <2>1, <2>2
  <1>6. CASE UNCHANGED prefVars
    <2>1. UNCHANGED <<prefs, updating, overlapped>>
      BY <1>6 DEF prefVars
    <2>2. \A c, k : InForce(PrefUpdates[c][k])' <=> InForce(PrefUpdates[c][k])
      BY <2>1 DEF InForce
    <2> QED
      BY <2>1, <2>2 DEF PrefInv, PrefTypes, UpdateFits
  <1> QED
    BY <1>1, <1>2, <1>3, <1>4, <1>5, <1>6 DEF PrefNext

\* An update that ends alone has all its items in force.
PrefStep ==
    \A c \in PrefCallers :
        (updating'[c].pc = "done" /\ updating[c].pc = "writing" /\ c \notin overlapped) =>
            \A k \in LastForPair(PrefUpdates[c]) :
                /\ isEnabled(PrefUpdates[c][k].pair) = PrefUpdates[c][k].enabled
                /\ getPrefs[PrefUpdates[c][k].pair] = PrefUpdates[c][k].enabled

\* Every step of the preferences is such a step.
LEMMA PrefsEnd == PrefInv /\ [PrefNext]_prefVars => [PrefStep]_prefVars
  <1> SUFFICES ASSUME PrefInv, PrefNext, NEW c \in PrefCallers,
                      updating'[c].pc = "done", updating[c].pc = "writing", c \notin overlapped,
                      NEW k \in LastForPair(PrefUpdates[c])
               PROVE  /\ isEnabled(PrefUpdates[c][k].pair) = PrefUpdates[c][k].enabled
                      /\ getPrefs[PrefUpdates[c][k].pair] = PrefUpdates[c][k].enabled
    BY DEF PrefStep
  <1>0. /\ updating \in [PrefCallers -> [pc : {"idle", "writing", "refused", "threw", "done"}, next : Nat]]
        /\ UpdateFits(c) /\ DOMAIN prefs \subseteq Pairs /\ \A p \in DOMAIN prefs : prefs[p] \in BOOLEAN
    BY DEF PrefInv, PrefTypes
  <1>1. EndUpdate(c)
    BY <1>0 DEF PrefNext, BeginUpdate, UpsertItem, UpsertThrows, SendAgain, EndUpdate
  <1> PICK items : items = PrefUpdates[c]
    OBVIOUS
  <1> PICK x : x = items[k]
    OBVIOUS
  <1>u. Len(items) \in Nat /\ DOMAIN items = 1 .. Len(items)
    BY UpdateItems
  <1>v. /\ updating[c].next \in 1 .. Len(items) + 1 /\ Validates(items)
        /\ \A j \in Written(items, updating[c].next) : InForce(items[j])
    BY <1>0 DEF UpdateFits
  <1>w. updating[c].next > Len(items)
    BY <1>1 DEF EndUpdate
  <1>2. /\ updating[c].next = Len(items) + 1 /\ Len(items) \in Nat /\ DOMAIN items = 1 .. Len(items)
        /\ Validates(items)
        /\ \A j \in Written(items, updating[c].next) : InForce(items[j])
    BY ONLY <1>u, <1>v, <1>w
  <1>3. /\ k \in 1 .. Len(items) /\ x.pair \in Pairs /\ x.enabled \in BOOLEAN
        /\ k \in Written(items, Len(items) + 1)
    BY <1>2, UpdateItems DEF LastForPair, Written
  <1>4. /\ x.pair \in DOMAIN prefs /\ (prefs[x.pair] <=> x.pair[1] = "in_app" \/ x.enabled)
        /\ prefs[x.pair] \in BOOLEAN
    BY <1>0, <1>2, <1>3 DEF InForce
  <1>5. x.pair[1] = "in_app" => x.enabled
    BY <1>2, <1>3 DEF Validates
  <1>6. isEnabled(x.pair) <=> x.enabled
    BY <1>4, <1>5 DEF isEnabled
  <1>7. getPrefs[x.pair] = x.enabled
    <2>1. CASE x.pair[1] = "in_app"
      BY <1>3, <1>5, <2>1 DEF getPrefs
    <2>2. CASE x.pair[1] # "in_app"
      BY <1>3, <1>4, <2>2 DEF getPrefs
    <2> QED
      BY <2>1, <2>2
  <1>8. isEnabled(x.pair) \in BOOLEAN
    BY <1>4 DEF isEnabled
  <1> QED
    BY <1>3, <1>6, <1>7, <1>8

--------------------------------------------------------------------------------
(* Health                                                                  *)

\* What a probe of s finds now.
Found(s) ==
    CASE s = "database" -> checkDatabase [] s = "stellar" -> checkStellar
      [] s = "partnerApi" -> checkPartnerApi [] s = "redis" -> checkRedis [] OTHER -> checkQueue

HealthTypes ==
    /\ serviceUp \in [Reachable -> {"up", "slow", "down"}]
    /\ probe \in [ProbeNames -> {"none", "ok", "degraded", "down"}]

\* While no service has changed, what was found is what would be found now; the
\* verdict is drawn from all probes.
ProbesAreCurrent == changedAt = {} => \A s \in ProbeNames : probe[s] \in {"none", Found(s)}
VerdictFollows ==
    verdict503 # "none" =>
        /\ \A s \in ProbeNames : probe[s] # "none"
        /\ verdict503 = IF \E s \in criticalComponents : probe[s] = "down" THEN "down"
                        ELSE IF \E s \in ProbeNames : probe[s] # "ok" THEN "degraded" ELSE "healthy"

HealthInv == HealthTypes /\ ProbesAreCurrent /\ VerdictFollows

\* Health starts with every service up and nothing probed.
LEMMA HealthInitially == HealthInit => HealthInv
  BY DEF HealthInit, HealthInv, HealthTypes, ProbesAreCurrent, VerdictFollows

\* A probe finds "ok", "degraded" or "down".
LEMMA FoundType ==
  ASSUME NEW s PROVE Found(s) \in {"ok", "degraded", "down"}
  BY DEF Found, checkDatabase, checkStellar, checkPartnerApi, checkRedis, checkQueue, PingResult

\* Every step of the health check keeps the invariant.
LEMMA HealthInvStep == HealthInv /\ [HealthNext]_healthVars => HealthInv'
  <1> SUFFICES ASSUME HealthInv, [HealthNext]_healthVars PROVE HealthInv'
    OBVIOUS
  <1>0. /\ serviceUp \in [Reachable -> {"up", "slow", "down"}]
        /\ probe \in [ProbeNames -> {"none", "ok", "degraded", "down"}]
    BY DEF HealthInv, HealthTypes
  <1>f. UNCHANGED serviceUp => \A s \in ProbeNames : Found(s)' = Found(s)
    BY DEF Found, checkDatabase, checkStellar, checkPartnerApi, checkRedis, checkQueue, PingResult
  <1>1. ASSUME NEW s \in Reachable, ServiceChanges(s) PROVE HealthInv'
    <2>1. HealthTypes'
      BY <1>0, <1>1 DEF ServiceChanges, HealthTypes
    <2>2. ProbesAreCurrent'
      BY <1>1 DEF ServiceChanges, ProbesAreCurrent
    <2>3. VerdictFollows'
      BY <1>1 DEF ServiceChanges, HealthInv, VerdictFollows
    <2> QED
      BY <2>1, <2>2, <2>3 DEF HealthInv
  <1>2. ASSUME NEW s \in ProbeNames, RunProbe(s) PROVE HealthInv'
    <2>1. /\ probe' = [probe EXCEPT ![s] = Found(s)] /\ verdict503 = "none"
          /\ UNCHANGED <<serviceUp, verdict503, changedAt>>
      BY <1>2 DEF RunProbe, Found
    <2>2. HealthTypes'
      BY <1>0, <2>1, FoundType DEF HealthTypes
    <2>3. ProbesAreCurrent'
      BY <1>0, <1>f, <2>1 DEF HealthInv, ProbesAreCurrent
    <2> QED
      BY <2>1, <2>2, <2>3 DEF HealthInv, VerdictFollows
  <1>3. CASE adminHealth
    <2>1. HealthTypes' /\ VerdictFollows'
      BY <1>0, <1>3 DEF adminHealth, HealthTypes, VerdictFollows
    <2>2. ProbesAreCurrent'
      BY <1>f, <1>3 DEF adminHealth, HealthInv, ProbesAreCurrent
    <2> QED
      BY <2>1, <2>2 DEF HealthInv
  <1>4. CASE NextRequest
    BY <1>0, <1>4 DEF NextRequest, HealthInv, HealthTypes, ProbesAreCurrent, VerdictFollows
  <1>5. CASE UNCHANGED healthVars
    <2>1. HealthTypes' /\ VerdictFollows'
      BY <1>0, <1>5 DEF healthVars, HealthInv, HealthTypes, VerdictFollows
    <2>2. ProbesAreCurrent'
      BY <1>f, <1>5 DEF healthVars, HealthInv, ProbesAreCurrent
    <2> QED
      BY <2>1, <2>2 DEF HealthInv
  <1> QED
    BY <1>1, <1>2, <1>3, <1>4, <1>5 DEF HealthNext

\* What the invariant says of the verdict.
LEMMA HealthKept == HealthInv => VerdictAgreesWithReadiness
  <1> SUFFICES ASSUME HealthInv, verdict503 # "none", changedAt = {}
               PROVE  /\ (verdict503 = "down") <=> ~readiness
                      /\ verdict503 = "healthy" =>
                             \A s \in Reachable : serviceUp[s] = "up" \/ (s = "partnerApi" /\ ~PartnerConfigured)
    BY DEF VerdictAgreesWithReadiness
  <1>1. \A s \in ProbeNames : probe[s] = Found(s)
    BY DEF HealthInv, ProbesAreCurrent, VerdictFollows
  <1>2. /\ probe["database"] = PingResult("database") /\ probe["stellar"] = PingResult("stellar")
        /\ probe["partnerApi"] = checkPartnerApi
    BY <1>1 DEF ProbeNames, Found, checkDatabase, checkStellar
  <1>3. verdict503 = IF \E s \in criticalComponents : probe[s] = "down" THEN "down"
                     ELSE IF \E s \in ProbeNames : probe[s] # "ok" THEN "degraded" ELSE "healthy"
    BY DEF HealthInv, VerdictFollows
  <1>4. /\ serviceUp["database"] \in {"up", "slow", "down"} /\ serviceUp["stellar"] \in {"up", "slow", "down"}
    BY DEF HealthInv, HealthTypes, Reachable
  <1>5. (verdict503 = "down") <=> ~readiness
    BY <1>2, <1>3, <1>4 DEF readiness, criticalComponents, PingResult
  <1>6. verdict503 = "healthy" => /\ probe["database"] = "ok" /\ probe["stellar"] = "ok"
                                  /\ probe["partnerApi"] = "ok"
    BY <1>3 DEF ProbeNames
  <1> QED
    BY <1>2, <1>4, <1>5, <1>6 DEF Reachable, PingResult, checkPartnerApi

--------------------------------------------------------------------------------
(* Together                                                                *)

\* A step of the composition is a step of one component and a stutter of the others.
LEMMA Steps ==
  ASSUME [Next]_vars
  PROVE  /\ [IndexNext]_indexVars /\ [HookNext]_hookVars /\ [MailNext]_mailVars
         /\ [RpcNext]_rpcVars /\ [RetryNext]_retryVars /\ [PauseNext]_pauseVars
         /\ [ApiNext]_apiVars /\ [WalletNext]_walletVars /\ [PrefNext]_prefVars
         /\ [HealthNext]_healthVars
BY DEF Next, vars

Inv ==
    /\ IndexInv /\ HookInv /\ MailInv /\ RpcInv /\ RetryInv /\ PauseInv /\ ApiInv
    /\ WalletInv /\ PrefInv /\ HealthInv

\* Every component keeps its invariant, whatever the others do.
LEMMA Invariant == Spec => []Inv
  <1>1. Init => Inv
    BY IndexInitially, HookInitially, MailInitially, RpcInitially, RetryInitially,
       PauseInitially, ApiInitially, WalletInitially, PrefInitially, HealthInitially
    DEF Init, Inv
  <1>2. Inv /\ [Next]_vars => Inv'
    BY Steps, IndexInvStep, HookInvStep, MailInvStep, RpcInvStep, RetryInvStep,
       PauseInvStep, ApiInvStep, WalletInvStep, PrefInvStep, HealthInvStep
    DEF Inv
  <1> QED
    BY <1>1, <1>2, PTL DEF Spec

\* Nothing that was taken over is lost, whichever await throws, worker dies or cache
\* entry goes, and for any number of instances: pollEvents saves a cursor only over
\* events it has emitted or dead-lettered, recordEmailSent and the failure handler leave
\* an outcome for every mail, and the column transformer's ciphertext opens again.
THEOREM ThmNothingLost == Spec => []NothingLost
  <1>1. Inv => NothingLost
    BY IndexKept, MailKept, WalletKept DEF Inv, NothingLost
  <1> QED
    BY <1>1, Invariant, PTL

\* Retries and duplicates stay within what was asked: posts and mails are bounded by the
\* attempts and the faults, a call reaches the ledger once, a retried job waits as
\* configured and a late create request makes no payment.
THEOREM ThmNoMoreThanAsked == Spec => []NoMoreThanAsked
  <1>1. Inv => NoMoreThanAsked
    BY HookKept, MailKept, RpcKept, RetryKept, ApiKept DEF Inv, NoMoreThanAsked
  <1> QED
    BY <1>1, Invariant, PTL

\* What the rows, the logs and the answers say did happen: failed posts, sent mails,
\* applied calls, registered addresses, pauses and the health verdict.
THEOREM ThmRecordsTellTheTruth == Spec => []RecordsTellTheTruth
  <1>1. Inv => RecordsTellTheTruth
    BY HookKept, MailKept, RpcKept, WalletKept, HealthKept
    DEF Inv, PauseInv, RecordsTellTheTruth
  <1> QED
    BY <1>1, Invariant, PTL

\* A deactivated webhook comes back, a decided payment is cancelled and a preference is
\* lost only by a request that overlapped the decision.  The processor notifies of
\* decisions only, never that a payment is pending or cancelled.
THEOREM ThmOnlyRacesUndo ==
  ASSUME ProcessorDecides
  PROVE  Spec => OnlyRacesUndo
  <1>1. Inv /\ [Next]_vars =>
           [ReviveStep]_hookVars /\ [CancelStep]_apiVars /\ [PrefStep]_prefVars
    BY Steps, HookRevives, ApiCancels, PrefsEnd DEF Inv
  <1>2. Spec => [][ReviveStep]_hookVars /\ [][CancelStep]_apiVars /\ [][PrefStep]_prefVars
    BY <1>1, Invariant, PTL DEF Spec
  <1> QED
    BY <1>2, PTL DEF OnlyRacesUndo, OnlyStaleSavesRevive, OnlyRacesCancelDecided, UpdateInForce,
                    ReviveStep, CancelStep, PrefStep
================================================================================
