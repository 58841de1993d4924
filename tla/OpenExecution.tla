---------------------------- MODULE OpenExecution ----------------------------
(***************************************************************************)
(* The simulated execution of portfolio targets (execution/backtest.py and *)
(* MarketRules in execution/rules.py), as a function of what was observed. *)
(*                                                                         *)
(* Bars come at fixed times.  At the opening of a bar the engine compares  *)
(* the latest target with what it holds, and sells and buys at that price, *)
(* within the rules of the moment, the shares that may be sold and the     *)
(* cash; at its close it values the account.                               *)
(***************************************************************************)
EXTENDS Integers, Sequences

CONSTANTS
    NSymbols,      \* symbols are numbers: orders are sorted by them
    NBars,
    BarsPerDay,
    Quotes,        \* the opening and closing prices that a bar may have
    Parts,         \* weights are parts of this
    InitialCash,
    Commission,    \* minimum_commission, what an order costs
    EntryWindow    \* entry_window_minutes, in units of time

ASSUME ExecutionAssumption ==
    /\ {NSymbols, NBars, BarsPerDay, Parts, InitialCash} \subseteq Nat \ {0}
    /\ {Commission, EntryWindow} \subseteq Nat
    /\ Quotes \subseteq [open : Nat \ {0}, close : Nat \ {0}]

Symbols == 1 .. NSymbols
Bars == 1 .. NBars
NoQuote == [open |-> 0, close |-> 0]
Weights == [Symbols -> 0 .. Parts]

(* Bar t closes at 2t.  It opens when the one before closes, the first of a *)
(* day after the night.                                                     *)
Close(t) == 2 * t
Open(t) == IF (t - 1) % BarsPerDay = 0 THEN 2 * t - 1 ELSE 2 * t - 2
Day(t) == (t - 1) \div BarsPerDay + 1
NDays == Day(NBars)
Days == 1 .. NDays

(* Sums(f)[n] is f[1] + ... + f[n]. *)
Sums(f) == LET sum[i \in {0} \cup DOMAIN f] == IF i = 0 THEN 0 ELSE sum[i - 1] + f[i]
           IN  sum
Least(a, b) == IF a <= b THEN a ELSE b
Most(a, b) == IF a >= b THEN a ELSE b

-----------------------------------------------------------------------------
(* What is known at a time *)

(* Mutant of RuleAt: rules apply to the time before they were published. *)
RuleAtOnceKnown(rules, s, at) ==
    LET known == {r \in rules : r.symbol = s /\ r.effective <= at}
        latest == {r \in known : \A q \in known : q.effective <= r.effective}
    IN  {r \in latest : at < r.expires /\ \A q \in latest : q.available <= r.available}

(* MarketRules.at: the latest rule that was in effect and published; when   *)
(* it has expired, none applies.                                            *)
RuleAt(rules, s, at) ==
    LET known == {r \in rules : r.symbol = s /\ r.effective <= at /\ r.available <= at}
        latest == {r \in known : \A q \in known : q.effective <= r.effective}
    IN  {r \in latest : at < r.expires /\ \A q \in latest : q.available <= r.available}

InForce(rules, at) == [s \in Symbols |-> RuleAt(rules, s, at)]

Known(targets, at) == {target \in targets : target.at <= at}
Latest(known) == CHOOSE x \in known : \A y \in known : y.at <= x.at

(* target_keys: the time of the target that gave s its present weight. *)
Decided(known, s) ==
    LET weight == Latest(known).weights[s]
        times == {x.at : x \in {x \in known :
                            \A y \in known : y.at >= x.at => y.weights[s] = weight}}
    IN  CHOOSE at \in times : \A other \in times : at <= other

-----------------------------------------------------------------------------
(* The book of a run *)

NewBook ==
    [cash |-> InitialCash,
     lots |-> [s \in Symbols |-> [d \in Days |-> 0]],
     marks |-> [s \in Symbols |-> 0],
     attempts |-> {},
     nav |-> <<>>, fills |-> <<>>, rejections |-> <<>>]

Quantity(book, s) == Sums(book.lots[s])[NDays]
Value(book, price) == Sums([s \in Symbols |-> Quantity(book, s) * price[s]])[NSymbols]

(* Mutant of Settled: shares may be sold on the day they were bought. *)
SettledToday(book, s, t) == Sums(book.lots[s])[Day(t)]

Settled(book, s, t) == Sums(book.lots[s])[Day(t) - 1]

AfterPurchase(lots, size, t) == [d \in Days |-> lots[d] + (IF d = Day(t) THEN size ELSE 0)]

(* The oldest lots are sold first. *)
AfterSale(lots, size, t) ==
    [d \in Days |-> IF d >= Day(t) THEN lots[d]
                    ELSE Most(0, lots[d] - Most(0, size - Sums(lots)[d - 1]))]

(* Mutant of Affordable: the commission is forgotten. *)
AffordableBare(book, wanted, price) == Least(wanted, book.cash \div price)

(* The loop over the size of a purchase: what the cash pays, costs included.*)
Affordable(book, wanted, price) ==
    LET paid == {n \in 1 .. Least(wanted, book.cash \div price) :
                    n * price + Commission <= book.cash}
    IN  IF paid = {} THEN 0 ELSE CHOOSE n \in paid : \A m \in paid : m <= n

(* How much of an order is filled, and why if that is not all of it. *)
Outcome(book, order, rule, t) ==
    LET result(size, reason) == [size |-> size, reason |-> reason]
        sale == Least(order.wanted, Settled(book, order.symbol, t))
    IN  IF rule = {} THEN result(0, "missing_market_rule")
        ELSE IF \E r \in rule : order.side \in r.blocked THEN result(0, "blocked")
        ELSE IF order.side = "buy"
               THEN result(Affordable(book, order.wanted, order.price), "cash")
        ELSE IF sale > 0 /\ book.cash + sale * order.price < Commission
               THEN result(0, "cash_for_sell_fees")
        ELSE result(sale, "t_plus_one")

Fill(book, order, size, t) ==
    LET s == order.symbol
        row == [bar |-> t, symbol |-> s, side |-> order.side, size |-> size, price |-> order.price]
    IN  [book EXCEPT
            !.cash = IF order.side = "buy" THEN @ - size * order.price - Commission
                                           ELSE @ + size * order.price - Commission,
            !.lots[s] = IF order.side = "buy" THEN AfterPurchase(@, size, t)
                                              ELSE AfterSale(@, size, t),
            !.fills = Append(@, row)]

Execute(book, order, rule, t) ==
    LET result == Outcome(book, order, rule, t)
        filled == IF result.size = 0 THEN book ELSE Fill(book, order, result.size, t)
        row == [bar |-> t, symbol |-> order.symbol, side |-> order.side, wanted |-> order.wanted,
                size |-> result.size, reason |-> result.reason]
    IN  IF result.size = order.wanted THEN filled
        ELSE [filled EXCEPT !.rejections = Append(@, row)]

-----------------------------------------------------------------------------
(* One bar *)

(* Mutant of Prices: an account is valued before the bar at its close. *)
PricesAtClose(book, quote) ==
    [s \in Symbols |-> IF quote[s] = NoQuote THEN book.marks[s] ELSE quote[s].close]

Prices(book, quote) ==
    [s \in Symbols |-> IF quote[s] = NoQuote THEN book.marks[s] ELSE quote[s].open]

(* The one attempt for each decision to hold a symbol (single_entry_attempt)*)
(* comes within the entry window.                                           *)
MayTrade(book, known, s, t) ==
    Latest(known).weights[s] > 0 =>
        /\ <<s, Decided(known, s)>> \notin book.attempts
        /\ Open(t) <= Decided(known, s) + EntryWindow

(* The shares by which the account misses the target, at the opening price, *)
(* and 0 for what is not traded.                                            *)
Missing(book, quote, known, t) ==
    LET price == Prices(book, quote)
        equity == book.cash + Value(book, price)
    IN  [s \in Symbols |->
            IF known # {} /\ quote[s] # NoQuote /\ MayTrade(book, known, s, t)
              THEN (equity * Latest(known).weights[s]) \div (Parts * price[s]) - Quantity(book, s)
              ELSE 0]

Attempted(missing, known) ==
    {<<s, Decided(known, s)>> :
        s \in {s \in Symbols : missing[s] # 0 /\ Latest(known).weights[s] > 0}}

(* Sales come first, then symbols are in order. *)
Order(missing, price, k) ==
    LET s == IF k <= NSymbols THEN k ELSE k - NSymbols
    IN  [symbol |-> s, price |-> price[s],
         side |-> IF k <= NSymbols THEN "sell" ELSE "buy",
         wanted |-> IF k <= NSymbols THEN -missing[s] ELSE missing[s]]

AfterOrder(book, order, rules, t) ==
    IF order.wanted <= 0 THEN book ELSE Execute(book, order, rules[order.symbol], t)

AfterOrders(book, missing, price, rules, t) ==
    LET after[k \in 0 .. 2 * NSymbols] ==
            IF k = 0 THEN book ELSE AfterOrder(after[k - 1], Order(missing, price, k), rules, t)
    IN  after[2 * NSymbols]

CloseBar(book, quote, t) ==
    LET marks == [s \in Symbols |-> IF quote[s] = NoQuote THEN book.marks[s] ELSE quote[s].close]
    IN  [book EXCEPT !.marks = marks,
                     !.nav = Append(@, [bar |-> t, cash |-> book.cash,
                                        value |-> Value(book, marks)])]

RunBar(book, quote, known, rules, t) ==
    LET missing == Missing(book, quote, known, t)
        tried == [book EXCEPT !.attempts = @ \cup Attempted(missing, known)]
    IN  CloseBar(AfterOrders(tried, missing, Prices(book, quote), rules, t), quote, t)

(* run: all bars that there are, in the order of time. *)
Present(bars) == {t \in Bars : \E s \in Symbols : bars[t][s] # NoQuote}
AfterBar(book, bars, targets, rules, t) ==
    IF t \notin Present(bars) THEN book
    ELSE RunBar(book, bars[t], Known(targets, Open(t)), InForce(rules, Open(t)), t)
BookAfter(bars, targets, rules) ==
    LET after[t \in 0 .. NBars] ==
            IF t = 0 THEN NewBook ELSE AfterBar(after[t - 1], bars, targets, rules, t)
    IN  after
Replay(bars, targets, rules) == BookAfter(bars, targets, rules)[NBars]
=============================================================================
