--------------------------- MODULE MCCalculators ---------------------------
EXTENDS Calculators

\* Offsets and budgets that round up, down and at the half; stops below zero.
MCBrackets ==
  [direction : Directions, entry : {0, 40, 1000}, atr : {0, 30, 34, 1667, 2500},
   equity : {0, 1001, 50000}, pct : {0, 25, 150}]

\* The seconds around every full hour of the week, and around every tenth minute of
\* the last hour before a close.
MCInstants ==
  LET Around(t) == {s \in {t - 60, t - 1, t, t + 1, t + 59} : s \in 0 .. WeekSeconds - 1}
  IN UNION {Around(h * Hour) : h \in 0 .. 167}
       \cup UNION {Around(d * DaySeconds + 16 * Hour + m * 600) : d \in 0 .. 6, m \in 0 .. 5}

MCCutoffs == {-1, 0, 1, 15, 60, 1439}

MCHeadrooms == {-1, 0, 1, 3, 100} \X {-1, 0, 1, 2, 40, 75, 100, 101} \X {-1, 0, 1, 2500, 9999, 10000}

\* Deposits and fills settle today or later; locks and releases are dated the day they
\* are made, with or without the one having met the other.
MCRows ==
  [delta : {-2, 3}, settles : {1, 2}, reason : {"DEPOSIT", "FILL"}]
    \cup [delta : {-2, -1}, settles : {0, 1}, reason : {"COLLATERAL_LOCK"}]
    \cup [delta : {1, 2}, settles : {1}, reason : {"COLLATERAL_RELEASE"}]
MCLedgers == [rows : UNION {[1 .. n -> MCRows] : n \in 0 .. 3}, today : {1}]

MCCaps(preferred, hard) ==
  [hard |-> hard, preferred |-> preferred, daily |-> 1, weekly |-> 1, allocation |-> 1,
   maxPositions |-> 1, minDte |-> 0, maxDte |-> 9, naked |-> FALSE, tier |-> 3]

MCLeg(type, side, strike, expiry) ==
  [type |-> type, side |-> side, strike |-> strike, expiry |-> expiry]
MCLegs ==
  [VERTICAL_SPREAD |-> <<MCLeg("PUT", "SHORT", 2, 1), MCLeg("PUT", "LONG", 1, 1)>>,
   IRON_CONDOR |-> <<MCLeg("PUT", "SHORT", 2, 1), MCLeg("PUT", "LONG", 1, 1)>>,
   CASH_SECURED_PUT |-> <<MCLeg("PUT", "SHORT", 2, 1)>>,
   CALENDAR_SPREAD |-> <<MCLeg("CALL", "SHORT", 2, 1), MCLeg("CALL", "LONG", 2, 2)>>,
   NAKED_PUT |-> <<MCLeg("PUT", "SHORT", 2, 1)>>]
MCCandidates ==
  {[id |-> i, strategy |-> s, legs |-> MCLegs[s], loss |-> l, stated |-> p] :
     i \in {1, 2},
     s \in {"VERTICAL_SPREAD", "IRON_CONDOR", "CALENDAR_SPREAD", "NAKED_PUT"},
     l \in {Absent, -50, 0, 70, 250}, p \in {Absent, 0, 70, 130, 700}}
MCAnswers ==
  {<<[failed |-> f, candidates |-> <<c>>]>> : f \in BOOLEAN, c \in MCCandidates}
    \cup {<<[failed |-> FALSE, candidates |-> <<c, d>>], [failed |-> FALSE, candidates |-> <<>>]>> :
           c, d \in {e \in MCCandidates : e.strategy # "CALENDAR_SPREAD" /\ e.loss \notin {-50, 250} /\ e.stated \notin {130, 700}}}
MCBatches ==
  [answers : MCAnswers, nlv : {0, 2000}, policy : {MCCaps(10, 30)}, taken : {{2}}]

\* Bars that rise, fall, gap and stand still, with and without volume.
MCBar(low, close, high, volume) ==
  [low |-> low, close |-> close, high |-> high, volume |-> volume]
MCBars ==
  {MCBar(0, 0, 0, 0), MCBar(0, 1, 2, 1), MCBar(1, 1, 1, 2), MCBar(1, 3, 3, 1),
   MCBar(2, 2, 4, 0), MCBar(3, 4, 4, 3)}
MCBarSeries == [1 .. 5 -> MCBars]

MCChain ==
  [time : 1 .. 2, expiry : {1, 2}, iv : {-1, 1, 3, 4}, call : {1}, put : {0, 2}]
MCChainSeries ==
  [rows : (UNION {[1 .. n -> MCChain] : n \in 0 .. 2}) \cup
     {<<[time |-> t[1], expiry |-> 1, iv |-> i[1], call |-> 1, put |-> 2],
        [time |-> t[2], expiry |-> 2, iv |-> i[2], call |-> 1, put |-> 2],
        [time |-> t[3], expiry |-> 1, iv |-> i[3], call |-> 1, put |-> 2]>> :
        t \in [1 .. 3 -> 1 .. 3], i \in [1 .. 3 -> {1, 2, 5}]},
   closes : {<<2, 3, 2>>, <<2, 2, 2>>, <<0, 1, 2>>, <<1, 2>>}]
=============================================================================
