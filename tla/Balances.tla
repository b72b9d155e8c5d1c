------------------------------ MODULE Balances ------------------------------
(***************************************************************************)
(* Balances derived from the entries of the ledger (ledger/balance.ts).    *)
(* Nothing is stored: each reading is one SELECT over the committed        *)
(* entries, optionally up to an entry seq.                                 *)
(***************************************************************************)
EXTENDS Ledger

CONSTANT AccountType    \* the type of each account

ASSUME AccountTypeAssumption ==
  AccountType \in [Account -> {"asset", "liability", "equity", "revenue", "expense"}]

ASSUME AccountsAreFinite == IsFiniteSet(Account)

\* The accounts whose balance grows with debits.
isDebitNormal(a) == AccountType[a] \in {"asset", "expense"}

CommittedEntries ==
  UNION {ToSet(ledger_transaction[k].entries) : k \in {j \in Key : Committed(j)}}

signed(e) == IF e.leg.direction = "debit" THEN e.leg.amount ELSE - e.leg.amount

debitMinusCredit(a, asOfSeq) ==
  SumFunction([e \in {x \in CommittedEntries : x.leg.account = a /\ x.seq <= asOfSeq} |->
                 signed(e)])

\* Bug: every balance is signed as if its account were debit-normal.
OnDebitSide(a, net) == net

onNormalSide(a, net) == IF isDebitNormal(a) THEN net ELSE - net

\* The balance of one account, signed on its normal side.
balance(a, asOfSeq) == onNormalSide(a, debitMinusCredit(a, asOfSeq))

\* trialBalance: the net of each currency over all its accounts.
netByCurrency(currency, asOfSeq) ==
  SumFunction([a \in {b \in Account : AccountCurrency[b] = currency} |->
                 debitMinusCredit(a, asOfSeq)])

\* No cut: every entry there is.
Now == next_seq

(***************************************************************************)
(* The invariant, for the proofs.                                          *)
(***************************************************************************)

\* Every entry is in the currency of its account, those not yet committed too.
AccountsHoldTheirCurrency ==
  /\ \A c \in Caller : \A i \in DOMAIN written[c] :
       ledger_entry_account_currency_fkey(written[c][i].leg)
  /\ \A k \in Key : Committed(k) => \A i \in DOMAIN EntriesOf(k) :
       ledger_entry_account_currency_fkey(EntriesOf(k)[i].leg)

\* Only finitely many postings have been committed.
FinitelyManyRows == IsFiniteSet({k \in Key : Committed(k)})

BooksInv == IInv /\ AccountsHoldTheirCurrency /\ FinitelyManyRows

(***************************************************************************)
(* Properties.                                                             *)
(***************************************************************************)

\* The books close in every currency, at any moment and whatever is half
\* written elsewhere: the trial balance is zero, and what the debit-normal
\* accounts hold is what the others hold.
BooksBalance ==
  \A currency \in AccountCurrencies :
    LET Total(S) == SumFunction([a \in {b \in S : AccountCurrency[b] = currency} |->
                                   balance(a, Now)])
    IN  /\ netByCurrency(currency, Now) = 0
        /\ Total({a \in Account : isDebitNormal(a)}) = Total({a \in Account : ~ isDebitNormal(a)})

=============================================================================
