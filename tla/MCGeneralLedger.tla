--------------------------- MODULE MCGeneralLedger ---------------------------
(* Small instances of GeneralLedger.                                       *)
EXTENDS GeneralLedger

CONSTANTS cash, revenue

(* A sale, an entry whose sides differ by the tolerated cent, and one with *)
(* both sides on the same account.                                         *)
Sale == <<[account |-> cash, amount |-> 2], [account |-> revenue, amount |-> -2]>>
OffByACent == <<[account |-> cash, amount |-> 2], [account |-> revenue, amount |-> -1]>>
Transfer == <<[account |-> cash, amount |-> 1], [account |-> cash, amount |-> -1]>>

OneEntry == {Sale}
ThreeEntries == {Sale, OffByACent, Transfer}

(* A tenant with two posted sales and a draft one in one period: what      *)
(* create, post, create, post and create leave, one after the other.  Two  *)
(* reversals that meet need two posted journals.                           *)
Booked(j, p) ==
    {[journal |-> j, line |-> i, account |-> Sale[i].account, period |-> p,
      amount |-> Sale[i].amount, balance |-> j * Sale[i].amount, at |-> 2 * j] :
     i \in DOMAIN Sale}
SaleOf(status, ref, p) ==
    [status |-> status, period |-> p, lines |-> Sale, ref |-> ref]
Settled ==
    \E ref \in Refs, p \in Periods :
      /\ clock = 5
      /\ periodStatus = [q \in Periods |-> "open"]
      /\ journal = [j \in Journals |-> CASE j \in 1 .. 2 -> SaleOf("posted", None, p)
                                           [] j = 3 -> SaleOf("draft", ref, p)
                                           [] OTHER -> NoJournal]
      /\ ledger = Booked(1, p) \union Booked(2, p)
      /\ balance = [x \in Accounts \X Periods |->
                      CASE x = <<cash, p>> -> [debit |-> 4, credit |-> 0, closing |-> 4]
                        [] x = <<revenue, p>> -> [debit |-> 0, credit |-> 4, closing |-> -4]
                        [] OTHER -> NoBalance]
      /\ pc = [r \in Requests |-> "idle"]
      /\ tx = [r \in Requests |-> NoTx]
      /\ locks = [r \in Requests |-> {}]

SettledSpec == Settled /\ [][Next]_vars /\ Fairness
=============================================================================
