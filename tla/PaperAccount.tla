---------------------------- MODULE PaperAccount ----------------------------
(***************************************************************************)
(* The durable paper account with a growing universe                       *)
(* (DynamicPaperAccount in execution/dynamic_paper.py).                    *)
(*                                                                         *)
(* Bars, targets and rules are delivered in pieces, repeatedly, and late.  *)
(* Each delivery is merged with what the account has, everything is run    *)
(* again from the beginning, and the new books replace the old ones if     *)
(* they continue them; else the delivery is refused and nothing changes.   *)
(* The file is replaced under a lock, so a kill is a delivery not made.    *)
(***************************************************************************)
EXTENDS OpenExecution, FiniteSets, SequencesExt

CONSTANTS
    RuleBook,     \* the market rules that may be delivered
    MaxTargets,   \* bound: targets
    TargetTimes   \* bound: the times of targets

ASSUME AccountAssumption ==
    /\ RuleBook \subseteq [symbol : Symbols, effective : Nat, available : Nat, expires : Nat,
                           blocked : SUBSET {"buy", "sell"}]
    /\ MaxTargets \in Nat /\ TargetTimes \subseteq Nat

VARIABLES
    bars,      \* bars[t][s]: the quote of s in bar t
    targets,   \* target_events, a set as no two are of one time
    rules,
    books,     \* nav, fills and rejections, as committed
    refused    \* history: a delivery that came in time was refused

vars == <<bars, targets, rules, books, refused>>

Nothing == [t \in Bars |-> [s \in Symbols |-> NoQuote]]
NoBooks == [nav |-> <<>>, fills |-> <<>>, rejections |-> <<>>]

Init ==
    /\ bars = Nothing
    /\ targets = {}
    /\ rules = {}
    /\ books = NoBooks
    /\ refused = FALSE

LastBar == IF Present(bars) = {} THEN 0
           ELSE CHOOSE t \in Present(bars) : \A u \in Present(bars) : u <= t
Watermark == Close(LastBar)
Exists == LastBar # 0

-----------------------------------------------------------------------------
(* What is merged.  What the account has already is skipped, a revision of  *)
(* it refuses the delivery.                                                 *)

(* _merge_bars: only bars after the watermark. *)
NewQuotes == {q \in [Symbols -> Quotes \cup {NoQuote}] : \E s \in Symbols : q[s] # NoQuote}
MergedBars ==
    IF LastBar = NBars THEN {} ELSE {[bars EXCEPT ![LastBar + 1] = q] : q \in NewQuotes}

(* _merge_target: in order, and none before the watermark. *)
NewTargets == [at : TargetTimes, weights : {w \in Weights : Sums(w)[NSymbols] <= Parts}]
InTime(target) ==
    /\ target.at >= Watermark
    /\ \A earlier \in targets : earlier.at < target.at
MergedTargets ==
    IF Cardinality(targets) = MaxTargets THEN {}
    ELSE {targets \cup {target} : target \in {x \in NewTargets : InTime(x)}}

(* The symbols whose weight changes must be in the delivery, and all the    *)
(* symbols of a target in the universe.                                     *)
Delivered(newBars, newTargets) ==
    LET old == IF targets = {} THEN [s \in Symbols |-> 0] ELSE Latest(targets).weights
        new == Latest(newTargets).weights
        universe == {s \in Symbols : \E t \in Bars : newBars[t][s] # NoQuote}
    IN  {s \in Symbols : new[s] # old[s] \/ new[s] > 0} \subseteq universe

BooksOf(run) == [nav |-> run.nav, fills |-> run.fills, rejections |-> run.rejections]

(* _assert_prefix *)
Continues(old, new) ==
    /\ IsPrefix(old.nav, new.nav)
    /\ IsPrefix(old.fills, new.fills)
    /\ IsPrefix(old.rejections, new.rejections)

(* Rules that were not public when the last bar was traded, or not in       *)
(* effect.                                                                  *)
Timely(newRules) ==
    Exists => \A r \in newRules : r.available > Open(LastBar) \/ r.effective > Open(LastBar)

(* advance *)
Advance(newBars, newTargets, newRules) ==
    \E new \in {BooksOf(Replay(newBars, newTargets, rules \cup newRules))} :
        \/ /\ Continues(books, new)
           /\ bars' = newBars /\ targets' = newTargets /\ rules' = rules \cup newRules
           /\ books' = new
           /\ UNCHANGED refused
        \/ /\ ~Continues(books, new)            \* HISTORY_REWRITE
           /\ refused' = (refused \/ Timely(newRules))
           /\ UNCHANGED <<bars, targets, rules, books>>

(* The first delivery has bars and a target; what follows brings, beside    *)
(* repetitions, bars of one time with or without a target, a target or a    *)
(* rule (bound).                                                            *)
Create(newBars, newTargets, newRules) ==
    /\ Delivered(newBars, newTargets)
    /\ Advance(newBars, newTargets, newRules)

DeliverBars(newBars) == Advance(newBars, targets, {})

(* With the bars, if any: a symbol can join with the bar that trades it.    *)
DeliverTarget(newBars, newTargets) ==
    /\ Delivered(newBars, newTargets)
    /\ Advance(newBars, newTargets, {})

DeliverRule(rule) == Advance(bars, targets, {rule})

First ==
    /\ ~Exists
    /\ \E newBars \in MergedBars, newTargets \in MergedTargets, newRules \in SUBSET RuleBook :
          Create(newBars, newTargets, newRules)

More ==
    /\ Exists
    /\ \/ \E newBars \in MergedBars : DeliverBars(newBars)
       \/ \E newBars \in MergedBars \cup {bars}, newTargets \in MergedTargets :
             DeliverTarget(newBars, newTargets)
       \/ \E rule \in RuleBook \ rules : DeliverRule(rule)

Next == First \/ More

Spec == Init /\ [][Next]_vars

-----------------------------------------------------------------------------
(* Properties *)

TypeOK ==
    /\ bars \in [Bars -> [Symbols -> Quotes \cup {NoQuote}]]
    /\ targets \subseteq NewTargets
    /\ rules \subseteq RuleBook
    /\ \A i \in DOMAIN books.nav : books.nav[i] \in [bar : Bars, cash : Nat, value : Nat]
    /\ \A i \in DOMAIN books.fills :
         books.fills[i] \in [bar : Bars, symbol : Symbols, side : {"buy", "sell"},
                             size : Nat \ {0}, price : Nat \ {0}]
    /\ \A i \in DOMAIN books.rejections :
         books.rejections[i].size < books.rejections[i].wanted
    /\ refused \in BOOLEAN

(* A delivery whose rules were published in time is never refused for       *)
(* rewriting history: what comes later, and symbols that join, change       *)
(* nothing that was traded before, so an account does not get stuck.        *)
OnTimeIsAccepted == ~refused

(* "Current bar high/low/close/volume never decide fills": with another     *)
(* close of the last bar the same orders are filled and refused.            *)
CloseDecidesNothing ==
    Exists =>
        LET moved == [s \in Symbols |-> [bars[LastBar][s] EXCEPT !.close = 2 * @]]
            run == Replay([bars EXCEPT ![LastBar] = moved], targets, rules)
        IN  run.fills = books.fills /\ run.rejections = books.rejections

(* What the fills up to a bar have cost and brought. *)
Amount(row) ==
    (IF row.side = "sell" THEN row.size * row.price ELSE -row.size * row.price) - Commission
CashAfter(fills, bar) ==
    InitialCash + Sums([i \in DOMAIN fills |->
                          IF fills[i].bar <= bar THEN Amount(fills[i]) ELSE 0])[Len(fills)]

Shares(fills, s, side, day) ==
    Sums([i \in DOMAIN fills |->
            IF fills[i].symbol = s /\ fills[i].side = side /\ Day(fills[i].bar) <= day
            THEN fills[i].size ELSE 0])[Len(fills)]

(* Recomputed from the fills: the cash, which never is below zero, and      *)
(* the shares; what a day sells was held when it began.                     *)
BooksBalance ==
    /\ \A i \in DOMAIN books.nav :
         LET row == books.nav[i] IN row.cash >= 0 /\ row.cash = CashAfter(books.fills, row.bar)
    /\ \A s \in Symbols, d \in Days :
         Shares(books.fills, s, "sell", d) <= Shares(books.fills, s, "buy", d - 1)
=============================================================================
