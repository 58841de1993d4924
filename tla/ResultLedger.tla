---------------------------- MODULE ResultLedger ----------------------------
(***************************************************************************)
(* What the result hand-over between collection workers and the canonical  *)
(* lake promises, without files, uploads, leases or crashes: every worker  *)
(* has an ordered list of exported result bundles, the canonical ledger    *)
(* takes them over in exactly that order, and a worker may regard a bundle *)
(* as delivered only after the ledger has it.  A page belongs to one       *)
(* bundle.                                                                 *)
(*                                                                         *)
(* TdxDelivery is shown to implement this specification.                   *)
(***************************************************************************)
EXTENDS Naturals, Sequences

CONSTANT Workers  \* the machines that collect

VARIABLES rows,      \* rows[w]: the bundles w exported, in sequence order
          ledger,    \* ledger[w]: the bundles of w the canonical lake merged
          confirmed  \* confirmed[w]: how many of them w knows to be merged

vars == <<rows, ledger, confirmed>>

Init ==
    /\ rows = [w \in Workers |-> <<>>]
    /\ ledger = [w \in Workers |-> <<>>]
    /\ confirmed = [w \in Workers |-> 0]

(* One more row; the rows before it stay, and it repeats no page of theirs. *)
Export(w) ==
    /\ \A v \in Workers \ {w} : rows'[v] = rows[v]
    /\ Len(rows'[w]) = Len(rows[w]) + 1
    /\ SubSeq(rows'[w], 1, Len(rows[w])) = rows[w]
    /\ \A i \in 1..Len(rows[w]) :
         rows[w][i].pages \cap rows'[w][Len(rows'[w])].pages = {}
    /\ UNCHANGED <<ledger, confirmed>>

Merge(w) ==
    /\ Len(ledger[w]) < Len(rows[w])
    /\ ledger' = [ledger EXCEPT ![w] = Append(@, rows[w][Len(@) + 1])]
    /\ UNCHANGED <<rows, confirmed>>

Confirm(w) ==
    /\ confirmed[w] < Len(ledger[w])
    /\ confirmed' = [confirmed EXCEPT ![w] = @ + 1]
    /\ UNCHANGED <<rows, ledger>>

Next ==
    \E w \in Workers : Merge(w) \/ Confirm(w) \/ Export(w)

Spec == Init /\ [][Next]_vars

(* Nothing that was exported waits for ever. *)
FairSpec == Spec /\ \A w \in Workers : WF_vars(Merge(w)) /\ WF_vars(Confirm(w))
=============================================================================
