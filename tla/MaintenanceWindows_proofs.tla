---------------------- MODULE MaintenanceWindows_proofs ----------------------
(***************************************************************************)
(* An update that needs downtime stays inside of a window of its runtime,  *)
(* for any policies with any number of rules and windows, all runtimes and *)
(* all lengths of day and minimum duration.                                *)
(***************************************************************************)
EXTENDS MaintenanceWindows, WellFoundedInduction, TLAPS

\* A sequence, as far as First looks at it.
IsList(s) == Len(s) \in Nat /\ DOMAIN s = 1..Len(s)

\* A window: days of the week, if any, and times.
IsWindow(mw) ==
    mw.days \subseteq 0..6 /\ mw.begin \in Int /\ mw.end \in Int /\ mw.zone \in Int

\* A weekly window that NextWindow finds a week ahead at the latest, whenever it starts to
\* look: on its day, it ends no earlier than the minimum duration after midnight in UTC.
EndsInItsDay(mw) == mw.days # {} => MinDuration <= OnDay(mw, 0).end

\* A policy whose rules have windows that are found.
IsPolicy(p) ==
    /\ IsList(p.rules)
    /\ \A i \in DOMAIN p.rules :
        LET windows == p.rules[i].windows
        IN  /\ IsList(windows)
            /\ \A j \in DOMAIN windows : IsWindow(windows[j]) /\ EndsInItsDay(windows[j])
    /\ IsWindow(p.default)

\* A day has some length, and the minimum duration is not negative.
Calendar == Day \in Nat \ {0} /\ MinDuration \in Nat

\* Every nonempty set of numbers has a least element.
LEMMA Least ==
    ASSUME NEW S \in SUBSET Nat, S # {}
    PROVE  \E n \in S : \A k \in S : n <= k
  <1>1. PICK n \in S : \A k \in S : ~(<<k, n>> \in OpToRel(<, Nat))
    BY NatLessThanWellFounded, WFMin, Zenon
  <1>2. \A k \in S : ~(k < n)
    BY <1>1, Zenon DEF OpToRel
  <1>. QED BY <1>2

\* A nonempty set of numbers has a first element, counting from any number.
LEMMA LeastFrom ==
    ASSUME NEW S \in SUBSET Nat, S # {}, NEW a \in Nat
    PROVE  \E n \in S : \A k \in a..(n - 1) : k \notin S
  BY Least

\* LookupAvailable returns what one of the listed windows has to offer, and nothing only
\* when none of them has anything.
LEMMA LookupGives ==
    ASSUME NEW w, IsList(w), NEW opts
    PROVE  \/ \E i \in DOMAIN w : /\ NextWindow(w[i], opts).found
                                  /\ LookupAvailable(w, opts) = NextWindow(w[i], opts)
           \/ /\ \A i \in DOMAIN w : ~NextWindow(w[i], opts).found
              /\ LookupAvailable(w, opts) = Nothing
  <1>. DEFINE S == {i \in DOMAIN w : NextWindow(w[i], opts).found}
              first == First(w, LAMBDA mw : NextWindow(mw, opts).found)
  <1>1. LookupAvailable(w, opts) = IF first = 0 THEN Nothing ELSE NextWindow(w[first], opts)
    BY DEF LookupAvailable
  <1>2. CASE S = {}
    <2>1. first = 0
      BY <1>2 DEF First
    <2>. QED BY <1>1, <1>2, <2>1
  <1>3. CASE S # {}
    <2>1. S \in SUBSET Nat /\ 0 \notin S
      BY DEF IsList
    <2>2. PICK i \in S : \A j \in 1..(i - 1) : j \notin S
      BY <1>3, <2>1, LeastFrom, Zenon
    <2>3. \E j \in DOMAIN w : /\ NextWindow(w[j], opts).found
                              /\ \A k \in 1..(j - 1) : ~NextWindow(w[k], opts).found
      BY <2>1, <2>2 DEF IsList
    <2>4. first = CHOOSE j \in DOMAIN w : /\ NextWindow(w[j], opts).found
                                          /\ \A k \in 1..(j - 1) : ~NextWindow(w[k], opts).found
      BY <1>3, Zenon DEF First
    <2>5. first \in DOMAIN w /\ NextWindow(w[first], opts).found
      BY <2>3, <2>4, Zenon
    <2>6. first # 0
      BY <2>5 DEF IsList
    <2>. QED BY <1>1, <2>5, <2>6, Zenon
  <1>. QED BY <1>2, <1>3

\* The day of a point in time of the third week, and its end.
LEMMA Today ==
    ASSUME Calendar, NEW now \in ThirdWeek
    PROVE  LET today == now \div Day
           IN  today \in 14..20 /\ now < (today + 1) * Day /\ now \in Nat
  <1>1. now \in Nat /\ 14 * Day <= now /\ now < 21 * Day
    BY DEF Calendar, ThirdWeek, Week
  <1>2. PICK today : today = now \div Day
    BY Zenon
  <1>3. today \in Int /\ today * Day <= now /\ now < (today + 1) * Day
    BY <1>1, <1>2 DEF Calendar
  <1>4. 14 <= today /\ today <= 20
    BY <1>1, <1>3 DEF Calendar
  <1>. QED BY <1>1, <1>2, <1>3, <1>4

\* A window that has started is taken if the minimum duration is left (windowWithin).
LEMMA WithinGives ==
    ASSUME NEW now, NEW begin, NEW end
    PROVE  LET window == windowWithin(OngoingOptions(now), begin, end)
           IN  /\ window.found <=> now + MinDuration < end
               /\ window.found => window.begin = begin /\ window.end = end
  BY DEF windowWithin, OngoingOptions, Nothing

\* A window without days is offered as it is.
LEMMA NextOnce ==
    ASSUME NEW mw, mw.days = {}, NEW now
    PROVE  NextWindow(mw, OngoingOptions(now)) = windowWithin(OngoingOptions(now), mw.begin, mw.end)
  BY DEF NextWindow

\* NextWindow offers a weekly window on one of the next days that suits, and nothing only
\* when none does.
LEMMA NextWeekly ==
    ASSUME NEW mw, mw.days # {}, NEW opts
    PROVE  LET on(k) == OnDay(mw, opts.now \div Day + k)
               within(k) == windowWithin(opts, on(k).begin, on(k).end)
               suits(k) == Weekday(opts.now \div Day + k) \in mw.days /\ within(k).found
           IN  \/ \E k \in 0..7 : suits(k) /\ NextWindow(mw, opts) = within(k)
               \/ NextWindow(mw, opts) = Nothing /\ \A k \in 0..7 : ~suits(k)
  <1>. DEFINE next == NextWindow(mw, opts)
              on(k) == OnDay(mw, opts.now \div Day + k)
              within(k) == windowWithin(opts, on(k).begin, on(k).end)
              suits(k) == Weekday(opts.now \div Day + k) \in mw.days /\ within(k).found
              S == {k \in 0..7 : suits(k)}
  <1>2. next = IF \A k \in 0..7 : ~suits(k) THEN Nothing
               ELSE within(CHOOSE j \in 0..7 : suits(j) /\ \A i \in 0..(j - 1) : ~suits(i))
    BY Zenon DEF NextWindow
  <1>. HIDE DEF next, within, suits
  <1>3. CASE S = {}
    BY <1>2, <1>3, Zenon DEF next, within, suits
  <1>4. CASE S # {}
    <2>1. S \in SUBSET Nat
      OBVIOUS
    <2>2. PICK j \in S : \A i \in 0..(j - 1) : i \notin S
      BY <1>4, <2>1, LeastFrom
    <2>3. \E k \in 0..7 : suits(k) /\ \A i \in 0..(k - 1) : ~suits(i)
      BY <2>2
    <2>4. PICK k : k = CHOOSE d \in 0..7 : suits(d) /\ \A i \in 0..(d - 1) : ~suits(i)
      BY Zenon
    <2>5. k \in 0..7 /\ suits(k)
      BY <2>3, <2>4, Zenon
    <2>6. next = within(k)
      BY <1>2, <2>4, <2>5, Zenon
    <2>. QED BY <2>5, <2>6, Zenon DEF next, within, suits
  <1>. QED BY <1>3, <1>4, Zenon

\* A window that is offered and has begun covers the present, with the minimum duration
\* left; and a weekly window that ends in its day is always offered.
LEMMA NextGives ==
    ASSUME Calendar, NEW mw, IsWindow(mw), NEW now \in ThirdWeek, NEW next,
           next = NextWindow(mw, OngoingOptions(now))
    PROVE  /\ next.found /\ next.begin < now => Covers(mw, now)
           /\ mw.days # {} /\ EndsInItsDay(mw) => next.found
  <1>. DEFINE today == now \div Day
              on(k) == OnDay(mw, today + k)
  <1>1. today \in 14..20 /\ now < (today + 1) * Day /\ now \in Nat
    BY Today
  <1>2. OngoingOptions(now).now = now /\ ~Nothing.found
    BY DEF OngoingOptions, Nothing
  <1>3. CASE mw.days = {}
    BY <1>3, NextOnce, WithinGives DEF Covers
  <1>4. CASE mw.days # {}
    <2>. DEFINE suits(k) == Weekday(today + k) \in mw.days /\ now + MinDuration < on(k).end
                within(k) == windowWithin(OngoingOptions(now), on(k).begin, on(k).end)
                offered(k) == Weekday(today + k) \in mw.days /\ within(k).found
    <2>1. /\ \A k : within(k).found <=> now + MinDuration < on(k).end
          /\ \A k : within(k).found => within(k).begin = on(k).begin
      BY WithinGives
    <2>2. \/ \E k \in 0..7 : offered(k) /\ next = within(k)
          \/ next = Nothing /\ \A k \in 0..7 : ~offered(k)
      BY <1>2, <1>4, NextWeekly, Zenon
    <2>. HIDE DEF within
    <2>3. CASE \E k \in 0..7 : suits(k)
      <3>1. PICK k \in 0..7 : suits(k) /\ next = within(k)
        BY <2>1, <2>2, <2>3, Zenon
      <3>2. next.found /\ next.begin = on(k).begin
        BY <2>1, <3>1, Zenon
      <3>3. today + k \in 0..(5 * 7)
        BY <1>1
      <3>. QED BY <1>4, <3>1, <3>2, <3>3 DEF Covers
    <2>4. CASE \A k \in 0..7 : ~suits(k)
      <3>1. ~next.found
        BY <1>2, <2>1, <2>2, <2>4, Zenon
      <3>2. ASSUME EndsInItsDay(mw) PROVE FALSE
        <4>1. PICK d \in 0..6 : d \in mw.days
          BY <1>4 DEF IsWindow
        <4>2. PICK k \in 1..7 : Weekday(today + k) = d
          BY <1>1, <4>1 DEF Weekday
        <4>3. on(k).end = (today + k) * Day + OnDay(mw, 0).end /\ OnDay(mw, 0).end \in Int
          BY <1>1 DEF OnDay, IsWindow, Calendar
        <4>4. (today + 1) * Day <= (today + k) * Day
          BY <1>1 DEF Calendar
        <4>5. MinDuration <= OnDay(mw, 0).end
          BY <1>4, <3>2 DEF EndsInItsDay
        <4>6. now + MinDuration < on(k).end
          BY <1>1, <4>3, <4>4, <4>5 DEF Calendar
        <4>. QED BY <2>4, <4>1, <4>2, <4>6
      <3>. QED BY <3>1, <3>2
    <2>. QED BY <2>3, <2>4
  <1>. QED BY <1>3, <1>4

\* The search of Resolve for an ongoing window stops at the first rule that matches, the
\* one whose windows are the runtime's own.
LEMMA RuleDecides ==
    ASSUME NEW p, IsList(p.rules), NEW run, NEW opts, opts.firstMatchOnly
    PROVE  \/ StopsAt(p, run, opts) = 0 /\ Own(p, run) = {}
           \/ \E i \in DOMAIN p.rules :
                /\ StopsAt(p, run, opts) = i /\ i # 0
                /\ Own(p, run) = {p.rules[i].windows[j] : j \in DOMAIN p.rules[i].windows}
  <1>. DEFINE rules == p.rules
              stop == StopsAt(p, run, opts)
              own == First(rules, LAMBDA rule : Match(rule.match, run))
              stops(i) == /\ Match(rules[i].match, run)
                          /\ opts.firstMatchOnly \/ LookupAvailable(rules[i].windows, opts).found
              matches(i) == Match(rules[i].match, run)
              S == {i \in DOMAIN rules : matches(i)}
  <1>1. stop = IF \A i \in DOMAIN rules : ~stops(i) THEN 0
               ELSE CHOOSE i \in DOMAIN rules : stops(i) /\ \A j \in 1..(i - 1) : ~stops(j)
    BY Zenon DEF StopsAt, First
  <1>2. own = IF \A i \in DOMAIN rules : ~matches(i) THEN 0
              ELSE CHOOSE i \in DOMAIN rules : matches(i) /\ \A j \in 1..(i - 1) : ~matches(j)
    BY Zenon DEF First
  <1>3. Own(p, run) = LET list == IF own = 0 THEN <<>> ELSE rules[own].windows
                      IN  {list[j] : j \in DOMAIN list}
    BY Zenon DEF Own
  <1>4. \A i : stops(i) <=> matches(i)
    OBVIOUS
  <1>5. \A i \in DOMAIN rules : i \in Nat /\ i # 0
    BY DEF IsList
  <1>. HIDE DEF stop, own, stops, matches
  <1>6. CASE S = {}
    <2>1. stop = 0 /\ own = 0
      BY <1>1, <1>2, <1>4, <1>6
    <2>2. DOMAIN <<>> = {}
      OBVIOUS
    <2>3. Own(p, run) = {}
      BY <1>3, <2>1, <2>2
    <2>. QED BY <2>1, <2>3 DEF stop
  <1>7. CASE S # {}
    <2>1. S \in SUBSET Nat
      BY <1>5
    <2>2. PICK i \in S : \A j \in 1..(i - 1) : j \notin S
      BY <1>7, <2>1, LeastFrom, Zenon
    <2>3. \A j \in 1..(i - 1) : j \in DOMAIN rules
      BY DEF IsList
    <2>4. /\ \E k \in DOMAIN rules : stops(k) /\ \A j \in 1..(k - 1) : ~stops(j)
          /\ \E k \in DOMAIN rules : matches(k) /\ \A j \in 1..(k - 1) : ~matches(j)
      BY <1>4, <2>2, <2>3, Zenon
    <2>5. stop \in DOMAIN rules /\ matches(stop) /\ \A j \in 1..(stop - 1) : ~matches(j)
      <3>1. stop = CHOOSE k \in DOMAIN rules : stops(k) /\ \A j \in 1..(k - 1) : ~stops(j)
        BY <1>1, <2>4, Zenon
      <3>. QED BY <1>4, <2>4, <3>1, Zenon
    <2>6. own \in DOMAIN rules /\ matches(own) /\ \A j \in 1..(own - 1) : ~matches(j)
      <3>1. own = CHOOSE k \in DOMAIN rules : matches(k) /\ \A j \in 1..(k - 1) : ~matches(j)
        BY <1>2, <2>4, Zenon
      <3>. QED BY <2>4, <3>1, Zenon
    <2>7. stop = own /\ own # 0
      BY <1>5, <2>5, <2>6
    <2>8. Own(p, run) = {rules[stop].windows[j] : j \in DOMAIN rules[stop].windows}
      BY <1>3, <2>7, Zenon
    <2>. QED BY <2>5, <2>7, <2>8, Zenon DEF stop
  <1>. QED BY <1>6, <1>7

\* IsActive says so only inside of a window of the runtime's own rule, or inside of the
\* default window when the rule has no weekly window.
LEMMA ActiveInside ==
    ASSUME Calendar, NEW p, IsPolicy(p), NEW run, NEW now \in ThirdWeek,
           IsActive(p, run, now) = "active"
    PROVE  \/ \E mw \in Own(p, run) : Covers(mw, now)
           \/ Covers(p.default, now) /\ \A mw \in Own(p, run) : mw.days = {}
  <1>. DEFINE opts == OngoingOptions(now)
              stop == StopsAt(p, run, opts)
              own == IF stop = 0 THEN Nothing ELSE LookupAvailable(p.rules[stop].windows, opts)
              def == NextWindow(p.default, opts)
  <1>1. opts.firstMatchOnly /\ opts.fallbackDefault /\ ~Nothing.found
    BY DEF OngoingOptions, Nothing
  <1>2. PICK window : window = Resolve(p, run, opts)
    BY Zenon
  <1>3. window = IF own.found THEN own ELSE def
    BY <1>1, <1>2, Zenon DEF Resolve
  <1>4. window.found /\ window.begin < now
    BY <1>2 DEF IsActive
  <1>. HIDE DEF opts, stop, own, def
  <1>5. CASE own.found
    <2>1. stop # 0 /\ own = LookupAvailable(p.rules[stop].windows, opts)
      BY <1>1, <1>5 DEF own
    <2>2. /\ stop \in DOMAIN p.rules
          /\ Own(p, run) = {p.rules[stop].windows[j] : j \in DOMAIN p.rules[stop].windows}
      BY <1>1, <2>1, RuleDecides DEF IsPolicy, stop
    <2>3. PICK list : list = p.rules[stop].windows
      BY Zenon
    <2>4. IsList(list) /\ \A j \in DOMAIN list : IsWindow(list[j]) /\ EndsInItsDay(list[j])
      BY <2>2, <2>3, Zenon DEF IsPolicy
    <2>5. PICK j \in DOMAIN list : own = NextWindow(list[j], opts)
      BY <1>1, <1>5, <2>1, <2>3, <2>4, LookupGives, Zenon
    <2>6. Covers(list[j], now)
      BY <1>3, <1>4, <1>5, <2>4, <2>5, NextGives, Zenon DEF opts
    <2>7. list[j] \in Own(p, run)
      BY <2>2, <2>3
    <2>. QED BY <2>6, <2>7, Zenon
  <1>6. CASE ~own.found
    <2>1. Covers(p.default, now)
      BY <1>3, <1>4, <1>6, NextGives, Zenon DEF opts, def, IsPolicy
    <2>2. ASSUME NEW mw \in Own(p, run) PROVE mw.days = {}
      <3>1. /\ stop \in DOMAIN p.rules /\ stop # 0
            /\ Own(p, run) = {p.rules[stop].windows[j] : j \in DOMAIN p.rules[stop].windows}
        BY <1>1, <2>2, RuleDecides DEF IsPolicy, stop
      <3>2. PICK list : list = p.rules[stop].windows
        BY Zenon
      <3>3. IsList(list) /\ \A j \in DOMAIN list : IsWindow(list[j]) /\ EndsInItsDay(list[j])
        BY <3>1, <3>2, Zenon DEF IsPolicy
      <3>4. own = LookupAvailable(list, opts)
        BY <3>1, <3>2, Zenon DEF own
      <3>5. PICK j \in DOMAIN list : mw = list[j]
        BY <2>2, <3>1, <3>2
      <3>6. ~NextWindow(list[j], opts).found
        BY <1>6, <3>3, <3>4, LookupGives, Zenon
      <3>. QED BY <3>3, <3>5, <3>6, NextGives, Zenon DEF opts
    <2>. QED BY <2>1, <2>2, Zenon
  <1>. QED BY <1>5, <1>6

\* The times at which the update may happen are the ones that IsActive gives.
Planned == active = {now \in ThirdWeek : IsActive(policy, runtime, now) = "active"}

\* The inductive invariant.
WInv == policy \in Policies /\ runtime \in Runtimes /\ Planned /\ updated \in {0} \cup active

\* An update that needs downtime happens inside of a window of the first rule that matches
\* its runtime, with the minimum duration left (Resolve, NextWindow), and inside of the
\* default window only if that rule has no weekly window: for all policies whose weekly
\* windows end in their day, however long the day, however many the rules, and wherever in
\* the week the reconciliation looks.
THEOREM UpdatesInTheirWindow ==
    ASSUME Calendar, \A p \in Policies : IsPolicy(p)
    PROVE  Spec => []UpdatesInsideWindow
  <1>1. Init => WInv
    BY DEF Init, WInv, Planned
  <1>2. WInv /\ [Next]_vars => WInv'
    BY DEF WInv, Planned, Next, Tick, Reconcile, vars
  <1>3. WInv => UpdatesInsideWindow
    BY ActiveInside DEF WInv, Planned, UpdatesInsideWindow
  <1>. QED BY <1>1, <1>2, <1>3, PTL DEF Spec
=============================================================================
