------------------------- MODULE MaintenanceWindows -------------------------
(***************************************************************************)
(* The maintenance window resolver (maintenancewindows/resolver), and an   *)
(* update that waits for its window (internal/maintenancewindows).         *)
(*                                                                         *)
(* Time is counted in ticks, Day ticks to a day; day 0 is a Sunday.  A     *)
(* window with days repeats weekly and has times of day in its own zone, a *)
(* window without days has points in time.                                 *)
(***************************************************************************)
EXTENDS Integers, Sequences

CONSTANTS
    Day,          \* ticks per day
    Policies,     \* the policies to consider
    Runtimes,     \* the runtimes to consider
    MinDuration   \* --min-maintenance-window-size, in ticks

Week == 7 * Day

Weekday(day) == day % 7

Nothing == [found |-> FALSE, begin |-> 0, end |-> 0]

\* Mutant: the time that is left does not matter.
windowWithinAtAll(opts, begin, end) ==
    IF \/ ~opts.ongoing /\ opts.now < begin
       \/ opts.ongoing /\ opts.now < end
    THEN [found |-> TRUE, begin |-> begin, end |-> end]
    ELSE Nothing

\* now, ongoing, minDuration, firstMatchOnly, fallbackDefault, as in resolveOptions.
windowWithin(opts, begin, end) ==
    IF \/ ~opts.ongoing /\ opts.now < begin
       \/ opts.ongoing /\ opts.now + opts.minDuration < end
    THEN [found |-> TRUE, begin |-> begin, end |-> end]
    ELSE Nothing

\* The window on the given day, the end on the next day if need be.
OnDay(mw, day) ==
    LET begin == day * Day + mw.begin - mw.zone
        end == day * Day + mw.end - mw.zone
    IN  [begin |-> begin, end |-> IF end <= begin THEN end + Day ELSE end]

\* The day of opts.now and a week ahead, the same weekday included.
NextWindow(mw, opts) ==
    LET today == opts.now \div Day
        suits(k) == /\ Weekday(today + k) \in mw.days
                    /\ windowWithin(opts, OnDay(mw, today + k).begin, OnDay(mw, today + k).end).found
    IN  IF mw.days = {} THEN windowWithin(opts, mw.begin, mw.end)
        ELSE IF \A k \in 0..7 : ~suits(k) THEN Nothing
        ELSE LET k == CHOOSE j \in 0..7 : suits(j) /\ \A i \in 0..(j - 1) : ~suits(i)
             IN  windowWithin(opts, OnDay(mw, today + k).begin, OnDay(mw, today + k).end)

\* The first element of a sequence for which P holds, 0 if there is none.
First(s, P(_)) ==
    IF \A i \in DOMAIN s : ~P(s[i]) THEN 0
    ELSE CHOOSE i \in DOMAIN s : P(s[i]) /\ \A j \in 1..(i - 1) : ~P(s[j])

\* The first of the listed windows that has one to offer, not the earliest.
LookupAvailable(windows, opts) ==
    LET i == First(windows, LAMBDA mw : NextWindow(mw, opts).found)
    IN  IF i = 0 THEN Nothing ELSE NextWindow(windows[i], opts)

\* match maps a field to the values its expression accepts; a rule matches
\* when one of its fields does.
Match(match, runtime) ==
    \E f \in DOMAIN match : runtime[f] # "" /\ runtime[f] \in match[f]

\* The index of the rule that ends the loop over the rules, 0 if none does.
StopsAt(policy, runtime, opts) ==
    First(policy.rules, LAMBDA rule :
              /\ Match(rule.match, runtime)
              /\ opts.firstMatchOnly \/ LookupAvailable(rule.windows, opts).found)

\* The flag "matched" after the loop is the one of the last rule looked at.
Resolve(policy, runtime, opts) ==
    LET stop == StopsAt(policy, runtime, opts)
        window == IF stop = 0 THEN Nothing ELSE LookupAvailable(policy.rules[stop].windows, opts)
        last == Len(policy.rules)
        matched == stop # 0 \/ (last # 0 /\ Match(policy.rules[last].match, runtime))
    IN  IF window.found THEN window
        ELSE IF matched /\ ~opts.fallbackDefault THEN Nothing
        ELSE NextWindow(policy.default, opts)

\* Mutant: the defaults of Resolve are taken.
DefaultOptions(now) ==
    [now |-> now, ongoing |-> FALSE, minDuration |-> MinDuration,
     firstMatchOnly |-> TRUE, fallbackDefault |-> TRUE]

OngoingOptions(now) ==
    [now |-> now, ongoing |-> TRUE, minDuration |-> MinDuration,
     firstMatchOnly |-> TRUE, fallbackDefault |-> TRUE]

\* "unknown" when Resolve returns an error.
IsActive(policy, runtime, now) ==
    LET window == Resolve(policy, runtime, OngoingOptions(now))
    IN  CASE ~window.found -> "unknown"
          [] window.found /\ window.begin < now /\ now < window.end -> "active"
          [] OTHER -> "inactive"

ThirdWeek == (2 * Week)..(3 * Week - 1)

(***************************************************************************)
(* An update with downtime is waiting; the Kyma is reconciled at least     *)
(* once per tick.                                                          *)
(***************************************************************************)
VARIABLES
    policy, runtime,
    active,    \* the times at which IsActive answers yes
    clock,     \* runs through the third week over and over; the others are like it
    asked,     \* the Kyma was reconciled in this tick
    updated    \* the time of the update, 0 before

vars == <<policy, runtime, active, clock, asked, updated>>

Init ==
    /\ policy \in Policies /\ runtime \in Runtimes
    /\ active = {now \in ThirdWeek : IsActive(policy, runtime, now) = "active"}
    /\ clock \in ThirdWeek
    /\ asked = FALSE
    /\ updated = 0

Tick ==
    /\ asked
    /\ clock' = IF clock = 3 * Week - 1 THEN 2 * Week ELSE clock + 1
    /\ asked' = FALSE
    /\ UNCHANGED <<policy, runtime, active, updated>>

Reconcile ==
    /\ ~asked
    /\ asked' = TRUE
    /\ updated' = IF updated = 0 /\ clock \in active THEN clock ELSE updated
    /\ UNCHANGED <<policy, runtime, active, clock>>

Next == Tick \/ Reconcile

Spec == Init /\ [][Next]_vars
FairSpec == Spec /\ WF_vars(Next)

(***************************************************************************)
(* Properties.                                                             *)
(***************************************************************************)

TypeOK ==
    /\ policy \in Policies /\ runtime \in Runtimes
    /\ clock \in ThirdWeek
    /\ active \subseteq ThirdWeek
    /\ asked \in BOOLEAN
    /\ updated \in {0} \cup ThirdWeek

\* What a policy means: the times a window covers, told from the calendar and
\* not from a search.  An update fits when it ends within the window.
Covers(mw, now) ==
    IF mw.days = {} THEN mw.begin < now /\ now + MinDuration < mw.end
    ELSE \E day \in 0..(5 * 7) :
            /\ Weekday(day) \in mw.days
            /\ OnDay(mw, day).begin < now
            /\ now + MinDuration < OnDay(mw, day).end

\* The windows of the first rule that matches.
Own(pol, run) ==
    LET i == First(pol.rules, LAMBDA rule : Match(rule.match, run))
        own == IF i = 0 THEN <<>> ELSE pol.rules[i].windows
    IN  {own[j] : j \in DOMAIN own}

\* The update that needs downtime happens inside of a window that applies to
\* the runtime, with the minimum duration left, whatever day the search of
\* NextWindow starts from and however the windows cross midnight.  A rule that
\* matches decides: the default window opens the runtime only when no window of
\* the rule is left, which never happens to weekly windows that end in their day
\* (in UTC, and late enough for the minimum duration).
UpdatesInsideWindow ==
    LET own == Own(policy, runtime)
    IN  updated # 0 =>
            \/ \E mw \in own : Covers(mw, updated)
            \/ Covers(policy.default, updated) /\ \A mw \in own : mw.days = {}

\* "OngoingWindow: if true then already started windows are returned if long
\* enough" (Resolve): while the only window of the rule that matches has
\* started and is long enough, the update may happen.
StartedWindowsFound ==
    \A mw \in Own(policy, runtime) :
        Own(policy, runtime) = {mw} /\ Covers(mw, clock) => clock \in active

\* A weekly window with a tick for the update on the day the window begins on.
\* The search of NextWindow starts at the present day, so the hours after
\* midnight of a window that began the day before are not found.
Recurs(mw) ==
    /\ mw.days # {}
    /\ \E now \in (7 * Day)..(8 * Day - 1) :
        OnDay(mw, 7).begin < now /\ now + MinDuration < OnDay(mw, 7).end

\* No update waits for ever: with weekly windows that have room for it, the
\* resolver finds a window to be active at some tick of the week.
UpdateHappens ==
    (updated = 0 /\ \A mw \in Own(policy, runtime) \cup {policy.default} : Recurs(mw)) ~> updated # 0
=============================================================================
