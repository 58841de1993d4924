--------------------------- MODULE MCPaperAccount ---------------------------
(* Instances of PaperAccount. *)
EXTENDS PaperAccount

(* A bar that rises and one that falls. *)
MCQuotes == {[open |-> 1, close |-> 2], [open |-> 2, close |-> 1]}

Rule(s, effective, available, expires, blocked) ==
    [symbol |-> s, effective |-> effective, available |-> available, expires |-> expires,
     blocked |-> blocked]

Lasting == Rule(2, 0, 0, 9, {})

(* Symbol 1 has such a rule too, and a suspension that is published after  *)
(* it was to begin, and expires before the last bar.                        *)
MCRuleBook == {Rule(1, 0, 0, 9, {}), Rule(1, 1, 2, 5, {"buy", "sell"}), Lasting}

(* Constraint: only accounts whose first delivery has the lasting rule are  *)
(* followed.                                                                *)
BeginsWithLasting == Exists => Lasting \in rules
=============================================================================
