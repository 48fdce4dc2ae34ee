---------------------------- MODULE AbstractBank ----------------------------
(***************************************************************************)
(* What the transactions module promises, without sessions: a bank whose   *)
(* every operation happens in one step on the true state.  An operation    *)
(* that cannot be honoured does not happen.  Every posting is recorded     *)
(* with the balance it leaves; a transfer is two postings and a Transfer   *)
(* record, or nothing.                                                     *)
(***************************************************************************)
EXTENDS Integers, Sequences

CONSTANTS Accounts, TransferIds, NoTransfer, Amounts, Openings

VARIABLES status, opening, balance, ledger, transfers

bankVars == <<status, opening, balance, ledger, transfers>>

Posting(type, amount, after, ref) ==
    [type |-> type, amount |-> amount, after |-> after, ref |-> ref]

Init ==
    /\ status = [a \in Accounts |-> "absent"]
    /\ opening = [a \in Accounts |-> 0]
    /\ balance = [a \in Accounts |-> 0]
    /\ ledger = [a \in Accounts |-> <<>>]
    /\ transfers = {}

Open(a, amount) ==
    /\ status[a] = "absent"
    /\ status' = [status EXCEPT ![a] = "active"]
    /\ opening' = [opening EXCEPT ![a] = amount]
    /\ balance' = [balance EXCEPT ![a] = amount]
    /\ UNCHANGED <<ledger, transfers>>

\* Closing never moves money.  (That the balance is zero when an account is
\* closed is not promised here: the code does not ensure it.)
Close(a) ==
    /\ status[a] # "absent"
    /\ status' = [status EXCEPT ![a] = "inactive"]
    /\ UNCHANGED <<opening, balance, ledger, transfers>>

\* One debit or credit of an active account, with no overdraft.
Post(a, type, amount) ==
    LET after == IF type = "credit" THEN balance[a] + amount ELSE balance[a] - amount IN
    /\ status[a] = "active"
    /\ type = "debit" => amount <= balance[a]
    /\ balance' = [balance EXCEPT ![a] = after]
    /\ ledger' = [ledger EXCEPT ![a] = Append(@, Posting(type, amount, after, NoTransfer))]
    /\ UNCHANGED <<status, opening, transfers>>

\* Both legs of a transfer, between two different active accounts.
Move(from, to, amount, id) ==
    /\ from # to
    /\ status[from] = "active" /\ status[to] = "active"
    /\ amount <= balance[from]
    /\ \A t \in transfers : t.id # id
    /\ balance' = [balance EXCEPT ![from] = @ - amount, ![to] = @ + amount]
    /\ ledger' = [ledger EXCEPT
                    ![from] = Append(@, Posting("debit", amount, balance'[from], id)),
                    ![to] = Append(@, Posting("credit", amount, balance'[to], id))]
    /\ transfers' = transfers \cup
                      {[id |-> id, from |-> from, to |-> to, amount |-> amount]}
    /\ UNCHANGED <<status, opening>>

Next ==
    \/ \E a \in Accounts, m \in Openings : Open(a, m)
    \/ \E a \in Accounts : Close(a)
    \/ \E a \in Accounts, t \in {"debit", "credit"}, m \in Amounts : Post(a, t, m)
    \/ \E from, to \in Accounts, m \in Amounts, id \in TransferIds :
          Move(from, to, m, id)

Spec == Init /\ [][Next]_bankVars
=============================================================================
