------------------------- MODULE OptionChainsProofs -------------------------
(***************************************************************************)
(* Proofs about OptionChains, for any underlyings, contracts, lists of     *)
(* backfills, market and clock: events are spaced, history is kept,        *)
(* answers are stored whole, and backfills advance.                        *)
(***************************************************************************)
EXTENDS OptionChains, FiniteSetTheorems, SequenceTheorems, TLAPS

FillState == [step : {"idle", "fetch", "check"},
              todo : Seq(Underlyings), cursor : Int, last : Int,
              attempt : Nat, answer : SUBSET Row, batch : SUBSET Row,
              kept : SUBSET Row]

(* A backfill at work has an underlying and a day before it and a try      *)
(* left.  What it was answered is still to be checked, kept for the        *)
(* commit, or stored; and it is a finite set of Polygon rows.              *)
FillInv(b) ==
  /\ fill[b].step # "idle" =>
       /\ fill[b].todo # <<>>
       /\ fill[b].cursor <= fill[b].last
       /\ fill[b].attempt < Tries
  /\ fill[b].step = "check" =>
       /\ fill[b].attempt = 0
       /\ IsFiniteSet(fill[b].batch)
       /\ \A r \in fill[b].answer :
            /\ r.source = "POLYGON"
            /\ r \in fill[b].batch \/ r \in fill[b].kept \/ Exists(r)

(* The watcher has an underlying before it, and when it is about to insert *)
(* an event, the events of that underlying are out of the window.          *)
ScanInv ==
  /\ scan.step # "idle" => scan.todo # <<>>
  /\ \A e \in events : e.at <= now
  /\ scan.step = "insert" =>
       /\ scan.at <= now
       /\ \A e \in events : e.u = Head(scan.todo) => scan.at - e.at > Window

(* A pull at work has an underlying before it. *)
PullState == [step : {"idle", "fetch"}, todo : Seq(Underlyings)]
PullInv ==
  /\ pull \in [Pulls -> PullState]
  /\ \A p \in Pulls : pull[p].step # "idle" => pull[p].todo # <<>>

ChainInv ==
  /\ TypeOK
  /\ PullInv
  /\ \A b \in Backfills : FillInv(b)
  /\ ScanInv
  /\ EventsAreSpaced

-----------------------------------------------------------------------------
(* Sequences and numbers *)

(* The rest of a list. *)
LEMMA Rest ==
  ASSUME NEW S, NEW s \in Seq(S), s # <<>>
  PROVE  /\ Head(s) \in S /\ Tail(s) \in Seq(S)
         /\ Len(s) \in Nat \ {0}
         /\ Len(s) = 1 \/ (Len(s) > 1 /\ Tail(s) # <<>>)
         /\ Len(s) > 1 => Tail(s) # <<>>
         /\ Len(Tail(s)) = Len(s) - 1
<1>1. Head(s) \in S /\ Tail(s) \in Seq(S) /\ Len(Tail(s)) = Len(s) - 1
  BY HeadTailProperties
<1>2. Len(s) \in Nat \ {0}
  BY EmptySeq
<1>3. Tail(s) = <<>> => Len(Tail(s)) = 0
  BY EmptySeq
<1> QED
  BY <1>1, <1>2, <1>3

(* The first contracts of a day's work. *)
LEMMA Product ==
  ASSUME NEW n \in Nat, n > 0, NEW k \in Nat
  PROVE  /\ n * k \in Nat
         /\ (n - 1) * k \in Nat
         /\ n * k = (n - 1) * k + k
OBVIOUS

LEMMA DayIsInt ==
  ASSUME TypeOK
  PROVE  now \in Nat /\ Day(now) \in Int
<1>1. now \in Nat /\ DayLength \in Nat \ {0}
  BY ChainAssumption DEF TypeOK, Times
<1> QED
  BY <1>1 DEF Day

(* A backfill that turns to a list starts at the first of its days. *)
LEMMA TurnState ==
  ASSUME TypeOK, NEW b \in Backfills, NEW list \in Seq(Underlyings), list # <<>>
  PROVE  /\ Turn(b, list) \in FillState
         /\ Turn(b, list).step = "fetch"
         /\ Turn(b, list).todo = list
         /\ Turn(b, list).attempt = 0
         /\ Turn(b, list).cursor <= Turn(b, list).last
         /\ Turn(b, list).last - Turn(b, list).cursor = Days[b] - 1
<1>1. Day(now) \in Int /\ Days[b] \in Nat \ {0}
  BY DayIsInt, ChainAssumption
<1>2. Turn(b, list) = [step |-> "fetch", todo |-> list,
                       cursor |-> Day(now) - (Days[b] - 1), last |-> Day(now),
                       attempt |-> 0, answer |-> {}, batch |-> {}, kept |-> {}]
  <2> DEFINE d == Day(now)
  <2> HIDE DEF d
  <2>1. Turn(b, list) = [NoFill EXCEPT !.step = "fetch", !.todo = list,
                                       !.cursor = d - (Days[b] - 1), !.last = d]
    BY DEF Turn, d
  <2>2. Turn(b, list) = [step |-> "fetch", todo |-> list,
                         cursor |-> d - (Days[b] - 1), last |-> d,
                         attempt |-> 0, answer |-> {}, batch |-> {}, kept |-> {}]
    BY <2>1 DEF NoFill
  <2> QED
    BY <2>2 DEF d
<1> QED
  BY <1>1, <1>2 DEF FillState

LEMMA NoFillState == NoFill \in FillState /\ NoFill.step = "idle"
BY DEF NoFill, FillState

-----------------------------------------------------------------------------
(* What each step of a backfill makes of it *)

LEMMA FillType ==
  ASSUME TypeOK, NEW b \in Backfills
  PROVE  /\ fill \in [Backfills -> FillState]
         /\ fill[b] \in FillState
         /\ fill[b].step \in {"idle", "fetch", "check"}
         /\ fill[b].todo \in Seq(Underlyings)
         /\ fill[b].cursor \in Int /\ fill[b].last \in Int /\ fill[b].attempt \in Nat
         /\ fill[b].answer \subseteq Row /\ fill[b].batch \subseteq Row
         /\ fill[b].kept \subseteq Row
<1>1. fill \in [Backfills -> FillState]
  BY DEF TypeOK, FillState
<1>2. fill[b] \in FillState
  BY <1>1
<1> QED
  BY <1>1, <1>2 DEF FillState

LEMMA Retried ==
  ASSUME TypeOK, NEW b \in Backfills, FillRetry(b)
  PROVE  /\ fill' \in [Backfills -> FillState]
         /\ \A o \in Backfills : o # b => fill'[o] = fill[o]
         /\ fill'[b].step = "fetch" /\ fill'[b].todo = fill[b].todo
         /\ fill'[b].cursor = fill[b].cursor /\ fill'[b].last = fill[b].last
         /\ fill'[b].attempt = fill[b].attempt + 1
<1>1. fill' = [fill EXCEPT ![b] = [fill[b] EXCEPT !.attempt = fill[b].attempt + 1]]
  BY FillType DEF FillRetry
<1>2. [fill[b] EXCEPT !.attempt = fill[b].attempt + 1] \in FillState
  <2>1. fill[b].attempt + 1 \in Nat
    BY FillType
  <2> QED
    BY <2>1, FillType DEF FillState
<1>3. fill' \in [Backfills -> FillState]
  BY <1>1, <1>2, FillType
<1>4. /\ \A o \in Backfills : o # b => fill'[o] = fill[o]
      /\ fill'[b] = [fill[b] EXCEPT !.attempt = fill[b].attempt + 1]
  BY <1>1, FillType
<1> QED
  BY <1>3, <1>4, FillType DEF FillRetry, FillState

(* The rows of an answer. *)
LEMMA PolygonRowType ==
  ASSUME TypeOK, NEW b \in Backfills, fill[b].todo # <<>>,
         NEW c \in Contracts, NEW updated \in {now, None}
  PROVE  PolygonRow(b, c, updated) \in Row /\ PolygonRow(b, c, updated).source = "POLYGON"
<1>1. Head(fill[b].todo) \in Underlyings
  BY FillType, Rest
<1>2. QuoteTime(updated, fill[b].cursor) \in Int
  <2>1. now \in Int /\ fill[b].cursor \in Int /\ DayLength \in Int /\ Close \in Int
    BY DayIsInt, FillType, ChainAssumption
  <2> QED
    BY <2>1 DEF QuoteTime
<1>3. Market[now][c] \in Vols
  <2>1. Market[now] \in [Contracts -> Vols]
    BY ChainAssumption DEF TypeOK, Times
  <2> QED
    BY <2>1
<1> QED
  BY <1>1, <1>2, <1>3 DEF PolygonRow, Row

LEMMA AnsweredBatch ==
  ASSUME TypeOK, NEW b \in Backfills, fill[b].todo # <<>>,
         NEW C \in SUBSET Contracts, NEW updated \in {now, None}
  PROVE  LET batch == {PolygonRow(b, c, updated) : c \in C}
         IN /\ batch \subseteq Row
            /\ \A r \in batch : r.source = "POLYGON"
            /\ IsFiniteSet(batch)
            /\ Cardinality(batch) <= Cardinality(Contracts)
<1> DEFINE batch == {PolygonRow(b, c, updated) : c \in C}
           row(c) == PolygonRow(b, c, updated)
           f == [c \in C |-> row(c)]
<1>1. batch \subseteq Row /\ \A r \in batch : r.source = "POLYGON"
  BY PolygonRowType
<1>2. IsFiniteSet(C) /\ Cardinality(C) <= Cardinality(Contracts)
  BY ChainAssumption, FS_Subset
<1>3. batch = {row(c) : c \in C}
  OBVIOUS
<1> HIDE DEF row, batch
<1>4. f \in Surjection(C, batch)
  BY <1>3 DEF Surjection
<1> HIDE DEF f
<1>5. IsFiniteSet(batch) /\ Cardinality(batch) <= Cardinality(C)
  BY <1>2, <1>4, FS_Surjection
<1>6. Cardinality(batch) \in Nat /\ Cardinality(C) \in Nat /\ Cardinality(Contracts) \in Nat
  BY <1>2, <1>5, ChainAssumption, FS_CardinalityType
<1>7. Cardinality(batch) <= Cardinality(Contracts)
  BY <1>2, <1>5, <1>6
<1>8. /\ batch \subseteq Row
      /\ \A r \in batch : r.source = "POLYGON"
      /\ IsFiniteSet(batch)
      /\ Cardinality(batch) <= Cardinality(Contracts)
  BY <1>1, <1>5, <1>7
<1> QED
  BY <1>8 DEF batch

LEMMA AnsweredState ==
  ASSUME TypeOK, NEW b \in Backfills, fill[b].todo # <<>>,
         NEW C \in SUBSET Contracts, NEW updated \in {now, None}, FillAnswered(b, C, updated)
  PROVE  /\ fill' \in [Backfills -> FillState]
         /\ \A o \in Backfills : o # b => fill'[o] = fill[o]
         /\ fill'[b].step = "check" /\ fill'[b].todo = fill[b].todo
         /\ fill'[b].cursor = fill[b].cursor /\ fill'[b].last = fill[b].last
         /\ fill'[b].attempt = 0
         /\ fill'[b].answer = fill'[b].batch
         /\ \A r \in fill'[b].batch : r.source = "POLYGON"
         /\ IsFiniteSet(fill'[b].batch)
         /\ Cardinality(fill'[b].batch) <= Cardinality(Contracts)
<1>1. PICK batch : batch = {PolygonRow(b, c, updated) : c \in C}
  OBVIOUS
<1>2. /\ batch \subseteq Row
      /\ \A r \in batch : r.source = "POLYGON"
      /\ IsFiniteSet(batch)
      /\ Cardinality(batch) <= Cardinality(Contracts)
  BY <1>1, AnsweredBatch
<1>3. fill' = [fill EXCEPT ![b] = [fill[b] EXCEPT !.step = "check", !.attempt = 0,
                                                  !.answer = batch, !.batch = batch]]
  BY <1>1, FillType DEF FillAnswered
<1>4. [fill[b] EXCEPT !.step = "check", !.attempt = 0,
                      !.answer = batch, !.batch = batch] \in FillState
  BY <1>2, FillType DEF FillState
<1>5. fill' \in [Backfills -> FillState]
  BY <1>3, <1>4, FillType
<1>6. /\ \A o \in Backfills : o # b => fill'[o] = fill[o]
      /\ fill'[b] = [fill[b] EXCEPT !.step = "check", !.attempt = 0,
                                    !.answer = batch, !.batch = batch]
  BY <1>3, FillType
<1>7. /\ fill'[b].step = "check" /\ fill'[b].todo = fill[b].todo
      /\ fill'[b].cursor = fill[b].cursor /\ fill'[b].last = fill[b].last
      /\ fill'[b].attempt = 0
      /\ fill'[b].answer = batch /\ fill'[b].batch = batch
  BY <1>6, FillType DEF FillState
<1> QED
  BY <1>2, <1>5, <1>6, <1>7

LEMMA Checked ==
  ASSUME TypeOK, NEW b \in Backfills, NEW r, FillCheck(b, r)
  PROVE  /\ fill' \in [Backfills -> FillState]
         /\ \A o \in Backfills : o # b => fill'[o] = fill[o]
         /\ fill'[b].step = "check" /\ fill'[b].todo = fill[b].todo
         /\ fill'[b].cursor = fill[b].cursor /\ fill'[b].last = fill[b].last
         /\ fill'[b].attempt = fill[b].attempt
         /\ fill'[b].answer = fill[b].answer
         /\ fill'[b].batch = fill[b].batch \ {r}
         /\ fill[b].kept \subseteq fill'[b].kept
         /\ r \in fill'[b].kept \/ Exists(r)
         /\ r \in fill[b].batch
<1>1. PICK kept : kept = IF Exists(r) THEN fill[b].kept ELSE fill[b].kept \cup {r}
  OBVIOUS
<1>2. fill' = [fill EXCEPT ![b] = [fill[b] EXCEPT !.batch = fill[b].batch \ {r},
                                                  !.kept = kept]]
  BY <1>1, FillType DEF FillCheck
<1>3. kept \subseteq Row /\ fill[b].batch \ {r} \subseteq Row
  BY <1>1, FillType DEF FillCheck
<1>4. [fill[b] EXCEPT !.batch = fill[b].batch \ {r}, !.kept = kept] \in FillState
  BY <1>3, FillType DEF FillState
<1>5. fill' \in [Backfills -> FillState]
  BY <1>2, <1>4, FillType
<1>6. /\ \A o \in Backfills : o # b => fill'[o] = fill[o]
      /\ fill'[b] = [fill[b] EXCEPT !.batch = fill[b].batch \ {r}, !.kept = kept]
  BY <1>2, FillType
<1>7. /\ fill'[b].step = fill[b].step /\ fill'[b].todo = fill[b].todo
      /\ fill'[b].cursor = fill[b].cursor /\ fill'[b].last = fill[b].last
      /\ fill'[b].attempt = fill[b].attempt
      /\ fill'[b].answer = fill[b].answer
      /\ fill'[b].batch = fill[b].batch \ {r} /\ fill'[b].kept = kept
  BY <1>6, FillType DEF FillState
<1> QED
  BY <1>1, <1>5, <1>6, <1>7 DEF FillCheck

(* After a day the backfill is at the next day, at the next underlying, or *)
(* done.                                                                   *)
NextDay(b) ==
  /\ fill[b].cursor < fill[b].last
  /\ fill'[b].step = "fetch" /\ fill'[b].todo = fill[b].todo
  /\ fill'[b].cursor = fill[b].cursor + 1 /\ fill'[b].last = fill[b].last
  /\ fill'[b].attempt = fill[b].attempt

NextList(b) ==
  /\ fill[b].cursor = fill[b].last
  /\ Len(fill[b].todo) > 1
  /\ fill'[b].step = "fetch" /\ fill'[b].todo = Tail(fill[b].todo)
  /\ fill'[b].cursor <= fill'[b].last
  /\ fill'[b].last - fill'[b].cursor = Days[b] - 1
  /\ fill'[b].attempt = 0

LEMMA Advanced ==
  ASSUME TypeOK, NEW b \in Backfills, fill[b].todo # <<>>, Advance(b)
  PROVE  /\ fill' \in [Backfills -> FillState]
         /\ \A o \in Backfills : o # b => fill'[o] = fill[o]
         /\ NextDay(b) \/ NextList(b) \/ fill'[b].step = "idle"
<1>1. CASE fill[b].cursor < fill[b].last
  <2> DEFINE next == [fill[b] EXCEPT !.step = "fetch", !.cursor = fill[b].cursor + 1,
                                     !.answer = {}, !.kept = {}]
  <2>1. fill' = [fill EXCEPT ![b] = next]
    <3>1. ~ (fill[b].cursor = fill[b].last)
      BY <1>1, FillType
    <3> QED
      BY <1>1, <3>1 DEF Advance
  <2>2. next \in FillState
    <3>1. fill[b].cursor + 1 \in Int
      BY FillType
    <3> QED
      BY <3>1, FillType DEF FillState
  <2>3. fill' \in [Backfills -> FillState] /\ fill'[b] = next
        /\ \A o \in Backfills : o # b => fill'[o] = fill[o]
    <3> HIDE DEF next
    <3> QED
      BY <2>1, <2>2, FillType
  <2>4. NextDay(b)
    BY <1>1, <2>3, FillType DEF NextDay, FillState
  <2> HIDE DEF next
  <2> QED
    BY <2>3, <2>4
<1>2. CASE ~ (fill[b].cursor < fill[b].last) /\ fill[b].cursor = fill[b].last
           /\ Len(fill[b].todo) > 1
  <2>1. PICK list : list = Tail(fill[b].todo)
    OBVIOUS
  <2>2. list \in Seq(Underlyings) /\ list # <<>>
    BY <1>2, <2>1, FillType, Rest
  <2>3. fill' = [fill EXCEPT ![b] = Turn(b, list)]
    BY <1>2, <2>1, FillType DEF Advance
  <2>4. fill' \in [Backfills -> FillState] /\ fill'[b] = Turn(b, list)
        /\ \A o \in Backfills : o # b => fill'[o] = fill[o]
    BY <2>2, <2>3, TurnState, FillType
  <2>5. NextList(b)
    <3>1. /\ fill'[b].step = "fetch" /\ fill'[b].todo = list
          /\ fill'[b].cursor <= fill'[b].last
          /\ fill'[b].last - fill'[b].cursor = Days[b] - 1
          /\ fill'[b].attempt = 0
      BY <2>2, <2>4, TurnState
    <3> QED
      BY <1>2, <2>1, <3>1 DEF NextList
  <2> QED
    BY <2>4, <2>5
<1>3. CASE ~ (fill[b].cursor < fill[b].last)
           /\ ~ (fill[b].cursor = fill[b].last /\ Len(fill[b].todo) > 1)
  <2>1. fill' = [fill EXCEPT ![b] = NoFill]
    BY <1>3, FillType DEF Advance
  <2> QED
    BY <2>1, FillType, NoFillState
<1> QED
  BY <1>1, <1>2, <1>3

LEMMA Stopped ==
  ASSUME TypeOK, NEW b \in Backfills, fill' = [fill EXCEPT ![b] = NoFill]
  PROVE  /\ fill' \in [Backfills -> FillState]
         /\ \A o \in Backfills : o # b => fill'[o] = fill[o]
         /\ fill'[b].step = "idle"
BY FillType, NoFillState

-----------------------------------------------------------------------------
(* Which steps there are *)

Pulling == \E p \in Pulls :
  \/ PullStart(p, Watch)
  \/ \E u \in Underlyings : PullStart(p, <<u>>)
  \/ PullStep(p)

Scanning == ScanStart \/ ScanStep

(* What a step does to the rows: nothing; a pull takes Schwab's of one     *)
(* underlying and time; a backfill adds those it kept.                     *)
LEMMA RowsStep ==
  ASSUME [Next]_vars
  PROVE  \/ UNCHANGED rows
         \/ /\ UNCHANGED <<fill, scan, events, now>>
            /\ rows' \subseteq rows
            /\ \A r \in rows : r.source # "SCHWAB" => r \in rows'
         \/ \E b \in Backfills : FillCommit(b)
<1>1. ASSUME NEW p \in Pulls, NEW quoted, PullEmpty(p, quoted)
      PROVE  /\ UNCHANGED <<fill, scan, events, now>>
             /\ rows' \subseteq rows
             /\ \A r \in rows : r.source # "SCHWAB" => r \in rows'
  BY <1>1 DEF PullEmpty, Replaced
<1>2. CASE Pulling
  BY <1>1, <1>2 DEF Pulling, PullStep, PullStart, PullFails
<1>3. ASSUME NEW b \in Backfills, FillStart(b) \/ FillStep(b)
      PROVE  UNCHANGED rows \/ FillCommit(b)
  BY <1>3 DEF FillStart, FillStep, FillRetry, FillAnswered, FillCheck, FillFails
<1>4. CASE Scanning
  BY <1>4 DEF Scanning, ScanStart, ScanStep, ScanQuiet, ScanSpike, ScanSeen, ScanTrigger,
     ScanInsert, ScanFails
<1>5. CASE Tick \/ Restart \/ UNCHANGED vars
  BY <1>5 DEF Tick, Restart, vars
<1> QED
  BY <1>2, <1>3, <1>4, <1>5 DEF Next, Pulling, Scanning

(* Polygon's rows stay. *)
LEMMA PolygonStays ==
  ASSUME [Next]_vars, NEW r \in rows, r.source = "POLYGON"
  PROVE  r \in rows'
<1>1. ASSUME NEW b \in Backfills, FillCommit(b)
      PROVE  r \in rows'
  BY <1>1 DEF FillCommit
<1> QED
  BY <1>1, RowsStep

LEMMA ExistsStays ==
  ASSUME [Next]_vars, NEW r, r.source = "POLYGON", Exists(r)
  PROVE  Exists(r)'
<1>1. PICK q \in rows : SameKey(q, r)
  BY DEF Exists
<1>2. q \in rows'
  BY <1>1, PolygonStays DEF SameKey
<1> QED
  BY <1>1, <1>2 DEF Exists, SameKey

-----------------------------------------------------------------------------
(* Backfills *)

(* A backfill that a step leaves alone. *)
LEMMA FillKept ==
  ASSUME ChainInv, [Next]_vars, NEW b \in Backfills, fill'[b] = fill[b]
  PROVE  FillInv(b)'
<1>1. FillInv(b)
  BY DEF ChainInv
<1>2. ASSUME fill[b].step = "check", NEW r \in fill[b].answer
      PROVE  /\ r.source = "POLYGON"
             /\ r \in fill[b].batch \/ r \in fill[b].kept \/ Exists(r)'
  BY <1>1, <1>2, ExistsStays DEF FillInv
<1> QED
  BY <1>1, <1>2 DEF FillInv

LEMMA FillIdle ==
  ASSUME NEW b \in Backfills, fill'[b].step = "idle"
  PROVE  FillInv(b)'
BY DEF FillInv

LEMMA FillFetching ==
  ASSUME NEW b \in Backfills, fill'[b].step = "fetch", fill'[b].todo # <<>>,
         fill'[b].cursor <= fill'[b].last, fill'[b].attempt < Tries
  PROVE  FillInv(b)'
BY DEF FillInv

(* A step of a backfill: its type, the others, and its own invariant. *)
LEMMA FillStepInv ==
  ASSUME ChainInv, [Next]_vars, NEW b \in Backfills, FillStart(b) \/ FillStep(b)
  PROVE  /\ fill' \in [Backfills -> FillState]
         /\ \A o \in Backfills : o # b => fill'[o] = fill[o]
         /\ FillInv(b)'
<1>1. TypeOK /\ FillInv(b) /\ Tries \in Nat \ {0}
  BY ChainAssumption DEF ChainInv
<1>2. CASE FillStart(b)
  <2>1. PICK list : list = Lists[b]
    OBVIOUS
  <2>2. list \in Seq(Underlyings) /\ list # <<>>
    BY <2>1, ChainAssumption
  <2>3. fill' = [fill EXCEPT ![b] = Turn(b, list)]
    BY <1>2, <2>1 DEF FillStart
  <2>4. /\ fill' \in [Backfills -> FillState] /\ fill'[b] = Turn(b, list)
        /\ \A o \in Backfills : o # b => fill'[o] = fill[o]
    BY <1>1, <2>2, <2>3, TurnState, FillType
  <2>5. /\ fill'[b].step = "fetch" /\ fill'[b].todo = list /\ fill'[b].attempt = 0
        /\ fill'[b].cursor <= fill'[b].last
    BY <1>1, <2>2, <2>4, TurnState
  <2> QED
    BY <1>1, <2>2, <2>4, <2>5, FillFetching
<1>3. CASE FillRetry(b)
  <2>1. /\ fill' \in [Backfills -> FillState]
        /\ \A o \in Backfills : o # b => fill'[o] = fill[o]
        /\ fill'[b].step = "fetch" /\ fill'[b].todo = fill[b].todo
        /\ fill'[b].cursor = fill[b].cursor /\ fill'[b].last = fill[b].last
        /\ fill'[b].attempt = fill[b].attempt + 1
    BY <1>1, <1>3, Retried
  <2>2. fill[b].step = "fetch" /\ fill[b].attempt + 1 < Tries
    BY <1>3 DEF FillRetry
  <2> QED
    BY <1>1, <2>1, <2>2, FillFetching DEF FillInv
<1>4. ASSUME fill[b].step = "fetch", NEW C \in SUBSET Contracts,
             NEW updated \in {now, None}, FillAnswered(b, C, updated)
      PROVE  /\ fill' \in [Backfills -> FillState]
             /\ \A o \in Backfills : o # b => fill'[o] = fill[o]
             /\ FillInv(b)'
  <2>1. fill[b].todo # <<>> /\ fill[b].cursor <= fill[b].last
    BY <1>1, <1>4 DEF FillInv
  <2>2. /\ fill' \in [Backfills -> FillState]
        /\ \A o \in Backfills : o # b => fill'[o] = fill[o]
        /\ fill'[b].step = "check" /\ fill'[b].todo = fill[b].todo
        /\ fill'[b].cursor = fill[b].cursor /\ fill'[b].last = fill[b].last
        /\ fill'[b].attempt = 0
        /\ fill'[b].answer = fill'[b].batch
        /\ \A r \in fill'[b].batch : r.source = "POLYGON"
        /\ IsFiniteSet(fill'[b].batch)
    BY <1>1, <1>4, <2>1, AnsweredState
  <2> QED
    BY <1>1, <2>1, <2>2 DEF FillInv
<1>5. ASSUME NEW r, FillCheck(b, r)
      PROVE  /\ fill' \in [Backfills -> FillState]
             /\ \A o \in Backfills : o # b => fill'[o] = fill[o]
             /\ FillInv(b)'
  <2>1. /\ fill' \in [Backfills -> FillState]
        /\ \A o \in Backfills : o # b => fill'[o] = fill[o]
        /\ fill'[b].step = "check" /\ fill'[b].todo = fill[b].todo
        /\ fill'[b].cursor = fill[b].cursor /\ fill'[b].last = fill[b].last
        /\ fill'[b].attempt = fill[b].attempt
        /\ fill'[b].answer = fill[b].answer
        /\ fill'[b].batch = fill[b].batch \ {r}
        /\ fill[b].kept \subseteq fill'[b].kept
        /\ r \in fill'[b].kept \/ Exists(r)
        /\ r \in fill[b].batch
    BY <1>1, <1>5, Checked
  <2>2. fill[b].step = "check" /\ rows' = rows
    BY <1>5 DEF FillCheck
  <2>3. IsFiniteSet(fill'[b].batch)
    BY <1>1, <2>1, <2>2, FS_RemoveElement DEF FillInv
  <2>4. ASSUME NEW q
        PROVE  Exists(q)' <=> Exists(q)
    BY <2>2 DEF Exists
  <2>5. ASSUME NEW q \in fill'[b].answer
        PROVE  /\ q.source = "POLYGON"
               /\ q \in fill'[b].batch \/ q \in fill'[b].kept \/ Exists(q)'
    BY <1>1, <2>1, <2>2, <2>4, <2>5 DEF FillInv
  <2> QED
    BY <1>1, <2>1, <2>2, <2>3, <2>5 DEF FillInv
<1>6. CASE FillCommit(b)
  <2>1. fill[b].step = "check" /\ Advance(b)
    BY <1>6 DEF FillCommit
  <2>2. fill[b].todo # <<>> /\ fill[b].attempt = 0
    BY <1>1, <2>1 DEF FillInv
  <2>3. /\ fill' \in [Backfills -> FillState]
        /\ \A o \in Backfills : o # b => fill'[o] = fill[o]
        /\ NextDay(b) \/ NextList(b) \/ fill'[b].step = "idle"
    BY <1>1, <2>1, <2>2, Advanced
  <2>4. CASE NextDay(b)
    <3>1. fill'[b].cursor <= fill'[b].last
      BY <1>1, <2>4, FillType DEF NextDay
    <3> QED
      BY <1>1, <2>2, <2>3, <2>4, <3>1, FillFetching DEF NextDay
  <2>5. CASE NextList(b)
    <3>1. PICK list : list = fill[b].todo
      OBVIOUS
    <3>2. list \in Seq(Underlyings) /\ list # <<>> /\ Len(list) > 1
      BY <1>1, <2>2, <2>5, <3>1, FillType DEF NextList
    <3>3. Tail(list) # <<>>
      BY <3>2, Rest
    <3>4. fill'[b].todo # <<>>
      BY <2>5, <3>1, <3>3 DEF NextList
    <3>5. /\ fill'[b].step = "fetch" /\ fill'[b].cursor <= fill'[b].last
          /\ fill'[b].attempt < Tries
      BY <1>1, <2>5 DEF NextList
    <3> QED
      BY <2>3, <3>4, <3>5, FillFetching
  <2> QED
    BY <2>3, <2>4, <2>5, FillIdle
<1>7. CASE FillFails(b)
  BY <1>1, <1>7, Stopped, FillIdle DEF FillFails
<1>8. ASSUME fill[b].step = "fetch", NEW C \in SUBSET Listed[Head(fill[b].todo)]
      PROVE  C \in SUBSET Contracts
  <2>1. fill[b].todo # <<>>
    BY <1>1, <1>8 DEF FillInv
  <2>2. Head(fill[b].todo) \in Underlyings
    BY <1>1, <2>1, FillType, Rest
  <2> QED
    BY <1>8, <2>2, ChainAssumption
<1> QED
  BY <1>2, <1>3, <1>4, <1>5, <1>6, <1>7, <1>8 DEF FillStep

(* Steps of anybody else leave the backfills alone, but for a restart.     *)
LEMMA FillStepOrNot ==
  ASSUME ChainInv, [Next]_vars
  PROVE  \/ UNCHANGED fill
         \/ fill' = [fill EXCEPT ![Nightly] = NoFill]
         \/ \E b \in Backfills : FillStart(b) \/ FillStep(b)
<1>1. CASE Pulling
  BY <1>1 DEF Pulling, PullStep, PullStart, PullEmpty, PullFails
<1>2. CASE Scanning
  BY <1>2 DEF Scanning, ScanStart, ScanStep, ScanQuiet, ScanSpike, ScanSeen, ScanTrigger,
     ScanInsert, ScanFails
<1>3. CASE Tick \/ Restart \/ UNCHANGED vars
  BY <1>3 DEF Tick, Restart, vars
<1> QED
  BY <1>1, <1>2, <1>3 DEF Next, Pulling, Scanning

LEMMA FillsInv ==
  ASSUME ChainInv, [Next]_vars
  PROVE  fill' \in [Backfills -> FillState] /\ \A b \in Backfills : FillInv(b)'
<1>1. TypeOK
  BY DEF ChainInv
<1>2. CASE UNCHANGED fill
  BY <1>1, <1>2, FillKept DEF TypeOK, FillState
<1>3. CASE fill' = [fill EXCEPT ![Nightly] = NoFill]
  BY <1>1, <1>3, Stopped, FillIdle, FillKept DEF Backfills
<1>4. ASSUME NEW b \in Backfills, FillStart(b) \/ FillStep(b)
      PROVE  fill' \in [Backfills -> FillState] /\ \A o \in Backfills : FillInv(o)'
  BY <1>4, FillStepInv, FillKept
<1> QED
  BY <1>2, <1>3, <1>4, FillStepOrNot

-----------------------------------------------------------------------------
(* Rows, pulls, the clock *)

LEMMA RowsType ==
  ASSUME ChainInv, [Next]_vars
  PROVE  rows' \subseteq Row
<1>1. TypeOK
  BY DEF ChainInv
<1>2. ASSUME NEW b \in Backfills, FillCommit(b)
      PROVE  rows' \subseteq Row
  BY <1>1, <1>2, FillType DEF FillCommit, TypeOK
<1> QED
  BY <1>1, <1>2, RowsStep DEF TypeOK

LEMMA PullsInv ==
  ASSUME ChainInv, [Next]_vars
  PROVE  PullInv'
<1>1. /\ pull \in [Pulls -> PullState]
      /\ \A p \in Pulls : pull[p].step # "idle" => pull[p].todo # <<>>
  BY DEF ChainInv, PullInv
<1>2. ASSUME NEW p \in Pulls, NEW s \in PullState, s.step # "idle" => s.todo # <<>>,
             pull' = [pull EXCEPT ![p] = s]
      PROVE  PullInv'
  BY <1>1, <1>2 DEF PullInv
<1>3. NoPull \in PullState /\ NoPull.step = "idle"
  BY DEF NoPull, PullState
<1>4. ASSUME NEW p \in Pulls, NEW list \in Seq(Underlyings), list # <<>>,
             pull' = [pull EXCEPT ![p] = [NoPull EXCEPT !.step = "fetch", !.todo = list]]
      PROVE  PullInv'
  <2>1. PICK s : s = [NoPull EXCEPT !.step = "fetch", !.todo = list]
    OBVIOUS
  <2>2. s = [step |-> "fetch", todo |-> list]
    BY <2>1 DEF NoPull
  <2>3. s \in PullState /\ s.todo # <<>>
    BY <1>4, <2>2 DEF PullState
  <2> QED
    BY <1>2, <1>4, <2>1, <2>3
<1>5. ASSUME NEW p \in Pulls, PullStart(p, Watch)
      PROVE  PullInv'
  BY <1>4, <1>5, ChainAssumption DEF PullStart
<1>6. ASSUME NEW p \in Pulls, NEW u \in Underlyings, PullStart(p, <<u>>)
      PROVE  PullInv'
  <2>1. <<u>> \in Seq(Underlyings) /\ <<u>> # <<>>
    OBVIOUS
  <2> QED
    BY <1>4, <1>6, <2>1 DEF PullStart
<1>7. ASSUME NEW p \in Pulls, NEW quoted, PullEmpty(p, quoted)
      PROVE  PullInv'
  <2>1. CASE Len(pull[p].todo) = 1
    <3>1. pull' = [pull EXCEPT ![p] = NoPull]
      BY <1>7, <2>1 DEF PullEmpty
    <3> QED
      BY <1>2, <1>3, <3>1
  <2>2. CASE Len(pull[p].todo) # 1
    <3>1. PICK list : list = Tail(pull[p].todo)
      OBVIOUS
    <3>2. list \in Seq(Underlyings) /\ list # <<>>
      BY <1>1, <1>7, <2>2, <3>1, Rest DEF PullEmpty, PullState
    <3>3. pull' = [pull EXCEPT ![p] = [NoPull EXCEPT !.step = "fetch", !.todo = list]]
      BY <1>7, <2>2, <3>1 DEF PullEmpty
    <3> QED
      BY <1>4, <3>2, <3>3
  <2> QED
    BY <2>1, <2>2
<1>8. ASSUME NEW p \in Pulls, PullFails(p)
      PROVE  PullInv'
  <2>1. pull' = [pull EXCEPT ![p] = NoPull]
    BY <1>8 DEF PullFails
  <2> QED
    BY <1>2, <1>3, <2>1
<1>9. CASE Pulling
  BY <1>5, <1>6, <1>7, <1>8, <1>9 DEF Pulling, PullStep
<1>10. CASE Restart
  BY <1>3, <1>10 DEF Restart, PullInv
<1>11. CASE UNCHANGED pull
  BY <1>1, <1>11 DEF PullInv
<1>12. ASSUME NEW b \in Backfills, FillStart(b) \/ FillStep(b)
       PROVE  UNCHANGED pull
  BY <1>12 DEF FillStart, FillStep, FillRetry, FillAnswered, FillCheck, FillCommit, FillFails
<1>13. CASE Scanning
  BY <1>11, <1>13 DEF Scanning, ScanStart, ScanStep, ScanQuiet, ScanSpike, ScanSeen,
     ScanTrigger, ScanInsert, ScanFails
<1> QED
  BY <1>9, <1>10, <1>11, <1>12, <1>13 DEF Next, Pulling, Scanning, Tick, vars

(* The clock. *)
LEMMA ClockStep ==
  ASSUME TypeOK, [Next]_vars
  PROVE  now' \in Times /\ now' >= now
<1>1. now \in Nat /\ MaxTime \in Nat /\ now <= MaxTime
  BY ChainAssumption DEF TypeOK, Times
<1>2. CASE Tick
  BY <1>1, <1>2 DEF Tick, Times
<1>3. CASE UNCHANGED now
  BY <1>1, <1>3 DEF Times
<1>4. CASE Pulling
  BY <1>3, <1>4 DEF Pulling, PullStep, PullStart, PullEmpty, PullFails
<1>5. ASSUME NEW b \in Backfills, FillStart(b) \/ FillStep(b)
      PROVE  UNCHANGED now
  BY <1>5 DEF FillStart, FillStep, FillRetry, FillAnswered, FillCheck, FillCommit, FillFails
<1>6. CASE Scanning
  BY <1>3, <1>6 DEF Scanning, ScanStart, ScanStep, ScanQuiet, ScanSpike, ScanSeen,
     ScanTrigger, ScanInsert, ScanFails
<1> QED
  BY <1>2, <1>3, <1>4, <1>5, <1>6 DEF Next, Pulling, Scanning, Restart, vars

-----------------------------------------------------------------------------
(* The watcher *)

ScanState == [step : {"idle", "read", "check", "insert"},
              todo : Seq(Underlyings), at : Times]

(* A watcher about to read, or idle, has nothing to be wrong about. *)
LEMMA ScanReading ==
  ASSUME ChainInv, [Next]_vars, UNCHANGED events, scan' \in ScanState,
         scan'.step # "insert", scan'.step # "idle" => scan'.todo # <<>>
  PROVE  ScanInv' /\ EventsAreSpaced'
<1>1. TypeOK /\ ScanInv /\ EventsAreSpaced
  BY DEF ChainInv
<1>2. ASSUME NEW e \in events
      PROVE  e.at <= now'
  <2>1. now' \in Int /\ now \in Int /\ e.at \in Int /\ now' >= now
    <3>1. now \in Times /\ now' \in Times /\ now' >= now /\ e \in Event
      BY <1>1, ClockStep DEF TypeOK
    <3> QED
      BY <3>1, ChainAssumption DEF Times, Event
  <2>2. e.at <= now
    BY <1>1 DEF ScanInv
  <2> QED
    BY <2>1, <2>2
<1> QED
  BY <1>1, <1>2 DEF ScanInv, EventsAreSpaced

(* A watcher that another's step finds as it is. *)
LEMMA ScanKept ==
  ASSUME ChainInv, [Next]_vars, UNCHANGED <<events, scan>>
  PROVE  scan' \in ScanState /\ events' \subseteq Event /\ ScanInv' /\ EventsAreSpaced'
<1>1. TypeOK /\ ScanInv /\ EventsAreSpaced
  BY DEF ChainInv
<1>2. /\ now' \in Int /\ now \in Int /\ now' >= now
      /\ scan.at \in Int /\ \A e \in events : e.at \in Int
  BY <1>1, ClockStep, ChainAssumption DEF TypeOK, Times, Event
<1>3. /\ \A e \in events : e.at <= now'
      /\ scan.step = "insert" => scan.at <= now'
  BY <1>1, <1>2 DEF ScanInv
<1> QED
  BY <1>1, <1>3 DEF ScanInv, EventsAreSpaced, TypeOK, ScanState

LEMMA NextUnderlyingState ==
  ASSUME TypeOK, scan.todo # <<>>
  PROVE  /\ NextUnderlying \in ScanState
         /\ NextUnderlying.step \in {"idle", "read"}
         /\ NextUnderlying.step # "idle" => NextUnderlying.todo # <<>>
<1>1. scan.todo \in Seq(Underlyings) /\ 0 \in Times
  BY ChainAssumption DEF TypeOK, Times
<1>2. NoScan \in ScanState /\ NoScan.step = "idle"
  BY <1>1 DEF NoScan, ScanState
<1>3. CASE Len(scan.todo) = 1
  BY <1>2, <1>3 DEF NextUnderlying
<1>4. CASE Len(scan.todo) # 1
  <2>1. PICK list : list = Tail(scan.todo)
    OBVIOUS
  <2>2. list \in Seq(Underlyings) /\ list # <<>>
    BY <1>1, <1>4, <2>1, Rest
  <2>3. NextUnderlying = [step |-> "read", todo |-> list, at |-> 0]
    BY <1>4, <2>1 DEF NextUnderlying, NoScan
  <2> QED
    BY <1>1, <2>2, <2>3 DEF ScanState
<1> QED
  BY <1>3, <1>4

LEMMA ScanStepInv ==
  ASSUME ChainInv, [Next]_vars, Scanning
  PROVE  scan' \in ScanState /\ events' \subseteq Event /\ ScanInv' /\ EventsAreSpaced'
<1>1. TypeOK /\ ScanInv /\ EventsAreSpaced /\ scan \in ScanState /\ events \subseteq Event
  BY DEF ChainInv, TypeOK, ScanState
<1>2. /\ now \in Nat /\ Window \in Nat /\ now \in Times /\ 0 \in Times
      /\ \A e \in events : e.at \in Nat
  BY <1>1, ChainAssumption DEF Times, Event, TypeOK
<1>3. CASE ScanStart
  <2>1. scan' = [step |-> "read", todo |-> Watch, at |-> 0]
    BY <1>3 DEF ScanStart, NoScan
  <2>2. scan' \in ScanState /\ scan'.step = "read" /\ scan'.todo # <<>>
    BY <1>2, <2>1, ChainAssumption DEF ScanState
  <2> QED
    BY <1>1, <1>3, <2>2, ScanReading DEF ScanStart
<1>4. ASSUME scan.step # "idle", scan' = NextUnderlying, UNCHANGED events
      PROVE  scan' \in ScanState /\ events' \subseteq Event /\ ScanInv' /\ EventsAreSpaced'
  <2>1. scan.todo # <<>>
    BY <1>1, <1>4 DEF ScanInv
  <2>2. /\ scan' \in ScanState /\ scan'.step \in {"idle", "read"}
        /\ scan'.step # "idle" => scan'.todo # <<>>
    BY <1>1, <1>4, <2>1, NextUnderlyingState
  <2> QED
    BY <1>1, <1>4, <2>2, ScanReading
<1>5. ASSUME NEW T, ScanQuiet(T)
      PROVE  scan' \in ScanState /\ events' \subseteq Event /\ ScanInv' /\ EventsAreSpaced'
  BY <1>4, <1>5 DEF ScanQuiet
<1>6. ASSUME NEW T, ScanSpike(T)
      PROVE  scan' \in ScanState /\ events' \subseteq Event /\ ScanInv' /\ EventsAreSpaced'
  <2>1. /\ scan' \in ScanState /\ scan'.step = "check" /\ scan'.todo = scan.todo
        /\ scan.step = "read" /\ UNCHANGED events
    BY <1>1, <1>6 DEF ScanSpike, ScanState
  <2> QED
    BY <1>1, <2>1, ScanReading DEF ScanInv
<1>7. CASE ScanSeen
  BY <1>4, <1>7 DEF ScanSeen
<1>8. CASE ScanTrigger
  <2>1. /\ scan' \in ScanState /\ scan'.step = "insert" /\ scan'.todo = scan.todo
        /\ scan'.at = now /\ scan.step = "check" /\ UNCHANGED <<events, now>>
        /\ ~ RecentEvent(Head(scan.todo))
    BY <1>1, <1>2, <1>8 DEF ScanTrigger, ScanState
  <2>2. ASSUME NEW e \in events, e.u = Head(scan.todo)
        PROVE  now - e.at > Window
    <3>1. ~ (e.at >= now - Window)
      BY <2>1, <2>2 DEF RecentEvent
    <3> QED
      BY <1>2, <3>1
  <2>3. ScanInv'
    BY <1>1, <1>2, <2>1, <2>2 DEF ScanInv
  <2> QED
    BY <1>1, <2>1, <2>3 DEF EventsAreSpaced
<1>9. CASE ScanInsert
  <2>1. PICK new : new = [u |-> Head(scan.todo), at |-> scan.at]
    OBVIOUS
  <2>2. scan.step = "insert" /\ scan.todo # <<>> /\ scan.at \in Nat /\ scan.at <= now
    BY <1>1, <1>9, ChainAssumption DEF ScanInsert, ScanInv, ScanState, Times
  <2>3. new \in Event /\ new.u = Head(scan.todo) /\ new.at = scan.at
    BY <1>1, <2>1, <2>2, Rest DEF ScanState, Event
  <2>4. events' = events \cup {new} /\ UNCHANGED now
    BY <1>9, <2>1 DEF ScanInsert
  <2>5. \A e \in events : e.u = new.u => new.at - e.at > Window
    BY <1>1, <2>2, <2>3 DEF ScanInv
  <2>6. EventsAreSpaced'
    <3>1. ASSUME NEW e \in events', NEW f \in events', e.u = f.u, e.at < f.at
          PROVE  f.at - e.at > Window
      <4>1. CASE e \in events /\ f \in events
        BY <1>1, <3>1, <4>1 DEF EventsAreSpaced
      <4>2. CASE e \in events /\ f = new
        BY <2>5, <3>1, <4>2
      <4>3. CASE e = new /\ f \in events
        <5>1. new.at - f.at > Window
          BY <2>5, <3>1, <4>3
        <5> QED
          BY <1>2, <2>2, <2>3, <3>1, <4>3, <5>1
      <4>4. CASE e = new /\ f = new
        BY <2>2, <2>3, <3>1, <4>4
      <4> QED
        BY <2>4, <4>1, <4>2, <4>3, <4>4
    <3> QED
      BY <3>1 DEF EventsAreSpaced
  <2>7. /\ scan' \in ScanState /\ scan'.step \in {"idle", "read"}
        /\ scan'.step # "idle" => scan'.todo # <<>>
    BY <1>1, <1>9, <2>2, NextUnderlyingState DEF ScanInsert
  <2>8. ScanInv'
    BY <1>1, <2>2, <2>3, <2>4, <2>7 DEF ScanInv
  <2> QED
    BY <1>1, <2>3, <2>4, <2>6, <2>7, <2>8
<1>10. CASE ScanFails
  <2>1. scan' \in ScanState /\ scan'.step = "idle" /\ UNCHANGED events
    BY <1>2, <1>10 DEF ScanFails, NoScan, ScanState
  <2> QED
    BY <1>1, <2>1, ScanReading
<1> QED
  BY <1>3, <1>5, <1>6, <1>7, <1>8, <1>9, <1>10 DEF Scanning, ScanStep

LEMMA WatcherInv ==
  ASSUME ChainInv, [Next]_vars
  PROVE  scan' \in ScanState /\ events' \subseteq Event /\ ScanInv' /\ EventsAreSpaced'
<1>1. CASE UNCHANGED <<events, scan>>
  BY <1>1, ScanKept
<1>2. CASE Scanning
  BY <1>2, ScanStepInv
<1>3. CASE Restart
  <2>1. TypeOK /\ 0 \in Times
    BY ChainAssumption DEF ChainInv, Times
  <2>2. scan' \in ScanState /\ scan'.step = "idle" /\ UNCHANGED events
    BY <1>3, <2>1 DEF Restart, NoScan, ScanState
  <2> QED
    BY <2>1, <2>2, ScanReading DEF TypeOK
<1>4. CASE Pulling
  BY <1>1, <1>4 DEF Pulling, PullStep, PullStart, PullEmpty, PullFails
<1>5. ASSUME NEW b \in Backfills, FillStart(b) \/ FillStep(b)
      PROVE  UNCHANGED <<events, scan>>
  BY <1>5 DEF FillStart, FillStep, FillRetry, FillAnswered, FillCheck, FillCommit, FillFails
<1> QED
  BY <1>1, <1>2, <1>3, <1>4, <1>5 DEF Next, Pulling, Scanning, Tick, vars

-----------------------------------------------------------------------------
(* The inductive invariant *)

LEMMA ChainInit ==
  ASSUME Init
  PROVE  ChainInv
<1>1. 0 \in Times
  BY ChainAssumption DEF Times
<1>2. TypeOK
  BY <1>1, NoFillState DEF Init, TypeOK, NoPull, NoScan, FillState
<1>3. ScanInv /\ EventsAreSpaced
  BY DEF Init, ScanInv, EventsAreSpaced, NoScan
<1>4. \A b \in Backfills : FillInv(b)
  BY NoFillState DEF Init, FillInv
<1> QED
  BY <1>2, <1>3, <1>4 DEF ChainInv, Init, NoPull, PullInv, PullState

LEMMA ChainStep ==
  ASSUME ChainInv, [Next]_vars
  PROVE  ChainInv'
<1>1. TypeOK'
  BY RowsType, WatcherInv, ClockStep, PullsInv, FillsInv
     DEF TypeOK, ChainInv, FillState, ScanState, PullInv, PullState
<1> QED
  BY <1>1, WatcherInv, PullsInv, FillsInv DEF ChainInv

(* The inductive invariant of the chain rows, their writers and the        *)
(* watcher.                                                                *)
THEOREM Inductive == Spec => []ChainInv
BY ChainInit, ChainStep, PTL DEF Spec

(* The type invariant. *)
THEOREM TypeCorrect == Spec => []TypeOK
<1>1. ChainInv => TypeOK
  BY DEF ChainInv
<1> QED
  BY <1>1, Inductive, PTL

(* One rise is one event: two events of an underlying are more than the    *)
(* window apart, whatever time passes between check and insert.            *)
THEOREM OneRiseOneEvent == Spec => []EventsAreSpaced
<1>1. ChainInv => EventsAreSpaced
  BY DEF ChainInv
<1> QED
  BY <1>1, Inductive, PTL

(* No pull, backfill or restart takes back what a backfill has stored.     *)
THEOREM HistoryStays == Spec => HistoryIsKept
<1>1. [Next]_vars => [{r \in rows : r.source = "POLYGON"} \subseteq rows']_rows
  BY PolygonStays
<1> QED
  BY <1>1, PTL DEF Spec, HistoryIsKept

(* A commit of a backfill leaves every quote of the answer stored,         *)
(* although the rows of the checks are those of earlier awaits.            *)
THEOREM AnswersStay == Spec => AnswersAreStored
<1>1. ASSUME ChainInv, NEW b \in Backfills, FillCommit(b), NEW r \in fill[b].answer
      PROVE  \E q \in rows' : SameKey(q, r)
  <2>1. r \in fill[b].kept \/ Exists(r)
    BY <1>1 DEF ChainInv, FillInv, FillCommit
  <2>2. rows' = rows \cup fill[b].kept
    BY <1>1 DEF FillCommit
  <2> QED
    BY <2>1, <2>2 DEF Exists, SameKey
<1>2. ChainInv /\ [Next]_vars =>
        [\A b \in Backfills : FillCommit(b) =>
           \A r \in fill[b].answer : \E q \in rows' : SameKey(q, r)]_vars
  BY <1>1
<1> QED
  BY <1>2, Inductive, PTL DEF Spec, AnswersAreStored

-----------------------------------------------------------------------------
(* Backfills end *)

(* What is left after an underlying's days, and in a day. *)
PerDay == Tries + Cardinality(Contracts) + 1
DaysLeft(b) == (Len(fill[b].todo) - 1) * Days[b] + (fill[b].last - fill[b].cursor)

LEMMA Counts ==
  ASSUME ChainInv, NEW b \in Backfills
  PROVE  /\ Tries \in Nat \ {0} /\ Days[b] \in Nat \ {0}
         /\ Cardinality(Contracts) \in Nat /\ PerDay \in Nat
         /\ fill[b].step # "idle" => DaysLeft(b) \in Nat
         /\ fill[b].step = "check" => Cardinality(fill[b].batch) \in Nat
<1>1. /\ Tries \in Nat \ {0} /\ Days[b] \in Nat \ {0}
      /\ Cardinality(Contracts) \in Nat /\ PerDay \in Nat
  BY ChainAssumption, FS_CardinalityType DEF PerDay
<1>2. TypeOK /\ FillInv(b)
  BY DEF ChainInv
<1>3. ASSUME fill[b].step # "idle"
      PROVE  DaysLeft(b) \in Nat
  <2>1. PICK list : list = fill[b].todo
    OBVIOUS
  <2>2. list \in Seq(Underlyings) /\ list # <<>> /\ Len(list) \in Nat \ {0}
    BY <1>2, <1>3, <2>1, FillType, Rest DEF FillInv
  <2>3. PICK n \in Nat : n = Len(list) - 1
    BY <2>2
  <2>4. n * Days[b] \in Nat
    BY <1>1
  <2>5. fill[b].last - fill[b].cursor \in Nat
    BY <1>2, <1>3, FillType DEF FillInv
  <2> QED
    BY <2>1, <2>3, <2>4, <2>5 DEF DaysLeft
<1>4. fill[b].step = "check" => Cardinality(fill[b].batch) \in Nat
  BY <1>2, FS_CardinalityType DEF FillInv
<1> QED
  BY <1>1, <1>3, <1>4

LEMMA RemainingIs ==
  ASSUME NEW b \in Backfills
  PROVE  /\ fill[b].step = "idle" => Remaining(b) = 0
         /\ fill[b].step = "fetch" =>
              Remaining(b) = DaysLeft(b) * PerDay
                             + (Tries - fill[b].attempt + Cardinality(Contracts) + 1)
         /\ fill[b].step = "check" =>
              Remaining(b) = DaysLeft(b) * PerDay + (Cardinality(fill[b].batch) + 1)
BY DEF Remaining, DaysLeft, PerDay

LEMMA RemainingIsPrime ==
  ASSUME NEW b \in Backfills
  PROVE  /\ fill'[b].step = "idle" => Remaining(b)' = 0
         /\ fill'[b].step = "fetch" =>
              Remaining(b)' = DaysLeft(b)' * PerDay
                              + (Tries - fill'[b].attempt + Cardinality(Contracts) + 1)
         /\ fill'[b].step = "check" =>
              Remaining(b)' = DaysLeft(b)' * PerDay + (Cardinality(fill'[b].batch) + 1)
BY DEF Remaining, DaysLeft, PerDay

(* A backfill at work has something before it. *)
LEMMA RemainingIsPositive ==
  ASSUME ChainInv, NEW b \in Backfills, fill[b].step # "idle"
  PROVE  Remaining(b) \in Nat /\ Remaining(b) > 0
<1>1. /\ Tries \in Nat \ {0} /\ PerDay \in Nat /\ Cardinality(Contracts) \in Nat
      /\ DaysLeft(b) \in Nat /\ DaysLeft(b) * PerDay \in Nat
      /\ fill[b].step = "check" => Cardinality(fill[b].batch) \in Nat
  BY Counts
<1>2. fill[b].step \in {"fetch", "check"} /\ fill[b].attempt \in Nat
      /\ fill[b].attempt < Tries
  BY FillType DEF ChainInv, FillInv
<1> DEFINE n == DaysLeft(b) * PerDay
<1>3. n \in Nat
  BY <1>1
<1>4. CASE fill[b].step = "fetch"
  <2>1. Remaining(b) = n + (Tries - fill[b].attempt + Cardinality(Contracts) + 1)
    BY <1>4, RemainingIs
  <2> HIDE DEF n
  <2> QED
    BY <1>1, <1>2, <1>3, <2>1
<1>5. CASE fill[b].step = "check"
  <2>1. Remaining(b) = n + (Cardinality(fill[b].batch) + 1)
    BY <1>5, RemainingIs
  <2> HIDE DEF n
  <2> QED
    BY <1>1, <1>3, <1>5, <2>1
<1> QED
  BY <1>2, <1>4, <1>5

(* Where the days left are the same. *)
LEMMA SameDays ==
  ASSUME NEW b \in Backfills, fill'[b].todo = fill[b].todo,
         fill'[b].cursor = fill[b].cursor, fill'[b].last = fill[b].last
  PROVE  DaysLeft(b)' = DaysLeft(b)
BY DEF DaysLeft

(* After a day there is a day less. *)
LEMMA OneDayLess ==
  ASSUME ChainInv, NEW b \in Backfills, fill[b].step # "idle", NextDay(b) \/ NextList(b)
  PROVE  DaysLeft(b)' = DaysLeft(b) - 1
<1>1. /\ TypeOK /\ FillInv(b) /\ Days[b] \in Nat \ {0}
      /\ fill[b].cursor \in Int /\ fill[b].last \in Int
  BY Counts, FillType DEF ChainInv
<1>2. PICK n \in Nat : Len(fill[b].todo) = n + 1
  <2>1. PICK list : list = fill[b].todo
    OBVIOUS
  <2>2. Len(list) \in Nat \ {0}
    BY <1>1, <2>1, FillType, Rest DEF FillInv
  <2>3. Len(list) - 1 \in Nat /\ Len(list) = (Len(list) - 1) + 1
    BY <2>2
  <2> QED
    BY <2>1, <2>3
<1>3. CASE NextDay(b)
  <2>1. DaysLeft(b) = n * Days[b] + (fill[b].last - fill[b].cursor)
    BY <1>2 DEF DaysLeft
  <2>2. DaysLeft(b)' = n * Days[b] + (fill[b].last - (fill[b].cursor + 1))
    BY <1>2, <1>3 DEF DaysLeft, NextDay
  <2>3. n * Days[b] \in Int
    BY <1>1
  <2> QED
    BY <1>1, <2>1, <2>2, <2>3
<1>4. CASE NextList(b)
  <2>1. n > 0 /\ Len(fill'[b].todo) = n
    <3>1. PICK list : list = fill[b].todo
      OBVIOUS
    <3>2. list \in Seq(Underlyings) /\ list # <<>>
      BY <1>1, <3>1, FillType DEF FillInv
    <3>3. Len(Tail(list)) = n
      BY <1>2, <3>1, <3>2, Rest
    <3>4. Len(fill'[b].todo) = Len(Tail(list)) /\ Len(list) > 1
      BY <1>4, <3>1 DEF NextList
    <3> QED
      BY <1>2, <3>1, <3>3, <3>4
  <2>2. DaysLeft(b) = n * Days[b] + 0
    BY <1>1, <1>2, <1>4 DEF DaysLeft, NextList
  <2>3. DaysLeft(b)' = (n - 1) * Days[b] + (Days[b] - 1)
    BY <1>4, <2>1 DEF DaysLeft, NextList
  <2>4. n * Days[b] = (n - 1) * Days[b] + Days[b] /\ (n - 1) * Days[b] \in Nat
    BY <1>1, <2>1, Product
  <2> QED
    BY <1>1, <2>2, <2>3, <2>4
<1> QED
  BY <1>3, <1>4

(* Every step of a backfill at work leaves it less to do. *)
LEMMA FillStepAdvances ==
  ASSUME ChainInv, NEW b \in Backfills, fill[b].step # "idle", FillStep(b)
  PROVE  Remaining(b)' >= 0 /\ Remaining(b)' < Remaining(b)
<1>1. /\ TypeOK /\ FillInv(b) /\ fill[b].todo # <<>>
      /\ Tries \in Nat \ {0} /\ PerDay \in Nat
      /\ Cardinality(Contracts) \in Nat /\ fill[b].attempt \in Nat
      /\ fill[b].attempt < Tries
      /\ DaysLeft(b) \in Nat /\ DaysLeft(b) * PerDay \in Nat
      /\ Remaining(b) \in Nat /\ Remaining(b) > 0
  BY Counts, FillType, RemainingIsPositive DEF ChainInv, FillInv
<1>2. PICK n \in Nat : n = DaysLeft(b) * PerDay
  BY <1>1
<1>3. CASE FillRetry(b)
  <2>1. /\ fill'[b].step = "fetch" /\ DaysLeft(b)' = DaysLeft(b)
        /\ fill'[b].attempt = fill[b].attempt + 1
    BY <1>1, <1>3, Retried, SameDays
  <2>2. fill[b].step = "fetch" /\ fill[b].attempt + 1 < Tries
    BY <1>3 DEF FillRetry
  <2>3. /\ Remaining(b) = n + (Tries - fill[b].attempt + Cardinality(Contracts) + 1)
        /\ Remaining(b)' = n + (Tries - (fill[b].attempt + 1) + Cardinality(Contracts) + 1)
    BY <1>2, <2>1, <2>2, RemainingIs, RemainingIsPrime
  <2>4. PICK a \in Nat, c \in Nat : a = fill[b].attempt /\ c = Cardinality(Contracts)
    BY <1>1
  <2>5. /\ Remaining(b) = n + (Tries - a + c + 1)
        /\ Remaining(b)' = n + (Tries - (a + 1) + c + 1)
    BY <2>3, <2>4
  <2>6. a + 1 < Tries /\ Tries \in Nat
    BY <1>1, <2>2, <2>4
  <2>7. /\ n + (Tries - (a + 1) + c + 1) >= 0
        /\ n + (Tries - (a + 1) + c + 1) < n + (Tries - a + c + 1)
    BY <2>6
  <2> QED
    BY <2>5, <2>7
<1>4. ASSUME fill[b].step = "fetch", NEW C \in SUBSET Contracts,
             NEW updated \in {now, None}, FillAnswered(b, C, updated)
      PROVE  Remaining(b)' >= 0 /\ Remaining(b)' < Remaining(b)
  <2>1. /\ fill'[b].step = "check" /\ DaysLeft(b)' = DaysLeft(b)
        /\ IsFiniteSet(fill'[b].batch)
        /\ Cardinality(fill'[b].batch) <= Cardinality(Contracts)
    BY <1>1, <1>4, AnsweredState, SameDays
  <2>2. PICK m \in Nat : m = Cardinality(fill'[b].batch)
    BY <2>1, FS_CardinalityType
  <2>3. Remaining(b)' = DaysLeft(b)' * PerDay + (Cardinality(fill'[b].batch) + 1)
    BY <2>1, RemainingIsPrime
  <2>4. /\ Remaining(b) = n + (Tries - fill[b].attempt + Cardinality(Contracts) + 1)
        /\ Remaining(b)' = n + (m + 1)
    BY <1>2, <1>4, <2>1, <2>2, <2>3, RemainingIs
  <2>5. m <= Cardinality(Contracts)
    BY <2>1, <2>2
  <2>6. PICK a \in Nat, c \in Nat : a = fill[b].attempt /\ c = Cardinality(Contracts)
    BY <1>1
  <2>7. Remaining(b) = n + (Tries - a + c + 1) /\ m <= c
    BY <2>4, <2>5, <2>6
  <2>8. a < Tries /\ Tries \in Nat
    BY <1>1, <2>6
  <2>9. n + (m + 1) >= 0 /\ n + (m + 1) < n + (Tries - a + c + 1)
    BY <2>7, <2>8
  <2> QED
    BY <2>4, <2>7, <2>9
<1>5. ASSUME NEW r, FillCheck(b, r)
      PROVE  Remaining(b)' >= 0 /\ Remaining(b)' < Remaining(b)
  <2>1. /\ fill'[b].step = "check" /\ DaysLeft(b)' = DaysLeft(b)
        /\ fill'[b].batch = fill[b].batch \ {r} /\ r \in fill[b].batch
        /\ fill[b].step = "check"
    BY <1>1, <1>5, Checked, SameDays DEF FillCheck
  <2>2. IsFiniteSet(fill[b].batch)
    BY <1>1, <2>1 DEF FillInv
  <2>3. PICK S : S = fill[b].batch
    OBVIOUS
  <2>4. IsFiniteSet(S \ {r}) /\ Cardinality(S \ {r}) = Cardinality(S) - 1
    BY <2>1, <2>2, <2>3, FS_RemoveElement
  <2>5. PICK k \in Nat, m \in Nat : k = Cardinality(S) /\ m = Cardinality(S \ {r})
    BY <2>2, <2>3, <2>4, FS_CardinalityType
  <2>6. Remaining(b)' = DaysLeft(b)' * PerDay + (Cardinality(fill'[b].batch) + 1)
    BY <2>1, RemainingIsPrime
  <2>7. Remaining(b) = n + (k + 1) /\ Remaining(b)' = n + (m + 1)
    BY <1>2, <2>1, <2>3, <2>5, <2>6, RemainingIs
  <2>8. m = k - 1
    BY <2>4, <2>5
  <2> QED
    BY <2>7, <2>8
<1>6. CASE FillCommit(b)
  <2>1. fill[b].step = "check" /\ fill[b].batch = {} /\ Advance(b) /\ fill[b].attempt = 0
    BY <1>1, <1>6 DEF FillCommit, FillInv
  <2>2. Cardinality(fill[b].batch) = 0
    BY <2>1, FS_EmptySet
  <2>3. Remaining(b) = n + 1
    <3>1. Remaining(b) = DaysLeft(b) * PerDay + (Cardinality(fill[b].batch) + 1)
      BY <2>1, RemainingIs
    <3> QED
      BY <1>2, <2>2, <3>1
  <2>4. CASE fill'[b].step = "idle"
    BY <1>1, <2>4, RemainingIsPrime
  <2>5. CASE NextDay(b) \/ NextList(b)
    <3>1. DaysLeft(b)' = DaysLeft(b) - 1
      BY <2>1, <2>5, OneDayLess
    <3>2. PICK m \in Nat : m = DaysLeft(b)
      BY <1>1
    <3>3. fill'[b].step = "fetch" /\ fill'[b].attempt = 0
      BY <2>1, <2>5 DEF NextDay, NextList
    <3>4. Remaining(b)' = (m - 1) * PerDay + (Tries - 0 + Cardinality(Contracts) + 1)
      BY <3>1, <3>2, <3>3, RemainingIsPrime
    <3>5. Tries - 0 + Cardinality(Contracts) + 1 = PerDay
      BY <1>1 DEF PerDay
    <3>6. m > 0
      <4>1. CASE NextDay(b)
        <5>1. PICK k \in Nat : Len(fill[b].todo) - 1 = k
          <6>1. PICK list : list = fill[b].todo
            OBVIOUS
          <6>2. Len(list) \in Nat \ {0}
            BY <1>1, <6>1, FillType, Rest
          <6>3. Len(list) - 1 \in Nat
            BY <6>2
          <6> QED
            BY <6>1, <6>3
        <5>2. k * Days[b] \in Nat
          BY Counts
        <5>3. fill[b].cursor \in Int /\ fill[b].last \in Int /\ fill[b].cursor < fill[b].last
          BY <1>1, <4>1, FillType DEF NextDay
        <5>4. m = k * Days[b] + (fill[b].last - fill[b].cursor)
          BY <3>2, <5>1 DEF DaysLeft
        <5> QED
          BY <5>2, <5>3, <5>4
      <4>2. CASE NextList(b)
        <5>1. PICK k \in Nat : Len(fill[b].todo) - 1 = k /\ k > 0
          <6>1. PICK list : list = fill[b].todo
            OBVIOUS
          <6>2. Len(list) \in Nat \ {0} /\ Len(list) > 1
            BY <1>1, <4>2, <6>1, FillType, Rest DEF NextList
          <6>3. Len(list) - 1 \in Nat /\ Len(list) - 1 > 0
            BY <6>2
          <6> QED
            BY <6>1, <6>3
        <5>2. (k - 1) * Days[b] \in Nat /\ k * Days[b] = (k - 1) * Days[b] + Days[b]
              /\ Days[b] \in Nat \ {0}
          BY <5>1, Counts, Product
        <5>3. m = k * Days[b] + 0
          BY <1>1, <3>2, <4>2, <5>1, FillType DEF DaysLeft, NextList
        <5> QED
          BY <5>2, <5>3
      <4> QED
        BY <2>5, <4>1, <4>2
    <3>7. m * PerDay = (m - 1) * PerDay + PerDay /\ (m - 1) * PerDay \in Nat
      BY <1>1, <3>2, <3>6, Product
    <3> QED
      BY <1>1, <1>2, <2>3, <3>2, <3>4, <3>5, <3>7
  <2> QED
    BY <1>1, <2>1, <2>4, <2>5, Advanced
<1>7. CASE FillFails(b)
  <2>1. fill'[b].step = "idle"
    BY <1>1, <1>7, Stopped DEF FillFails
  <2> QED
    BY <1>1, <2>1, RemainingIsPrime
<1>8. ASSUME fill[b].step = "fetch", NEW C \in SUBSET Listed[Head(fill[b].todo)]
      PROVE  C \in SUBSET Contracts
  <2>1. Head(fill[b].todo) \in Underlyings
    BY <1>1, FillType, Rest
  <2> QED
    BY <1>8, <2>1, ChainAssumption
<1> QED
  BY <1>3, <1>4, <1>5, <1>6, <1>7, <1>8 DEF FillStep

(* Whatever is retried, answered, refused or restarted, each step of a     *)
(* backfill leaves it less to do: none of them runs for ever.              *)
THEOREM BackfillsEnd == Spec => BackfillsAdvance
<1>1. ASSUME ChainInv, [Next]_vars, NEW b \in Backfills,
             fill[b].step # "idle", fill'[b] # fill[b]
      PROVE  Remaining(b)' >= 0 /\ Remaining(b)' < Remaining(b)
  <2>1. CASE fill' = [fill EXCEPT ![Nightly] = NoFill]
    <3>1. TypeOK /\ fill'[b].step = "idle"
      BY <1>1, <2>1, Stopped DEF ChainInv, Backfills
    <3> QED
      BY <1>1, <3>1, RemainingIsPrime, RemainingIsPositive
  <2>2. ASSUME NEW o \in Backfills, FillStart(o) \/ FillStep(o)
        PROVE  Remaining(b)' >= 0 /\ Remaining(b)' < Remaining(b)
    <3>1. o = b
      BY <1>1, <2>2, FillStepInv
    <3>2. FillStep(b)
      BY <1>1, <2>2, <3>1 DEF FillStart
    <3> QED
      BY <1>1, <3>2, FillStepAdvances
  <2> QED
    BY <1>1, <2>1, <2>2, FillStepOrNot
<1>2. ChainInv /\ [Next]_vars =>
        [\A b \in Backfills : fill[b].step # "idle" /\ fill'[b] # fill[b] =>
           Remaining(b)' >= 0 /\ Remaining(b)' < Remaining(b)]_vars
  BY <1>1
<1> QED
  BY <1>2, Inductive, PTL DEF Spec, BackfillsAdvance
=============================================================================
