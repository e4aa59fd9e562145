---------------------------- MODULE StockAccount ----------------------------
(***************************************************************************)
(* What the stock engine promises its callers, without processes, locks or *)
(* transactions: stock accounts with an append-only log each, and requests *)
(* that are booked in full, in one step, or refused and leave no trace.    *)
(***************************************************************************)
EXTENDS Integers, Sequences, FiniteSets

CONSTANTS
  Tasks,       \* requests
  Accounts,    \* stock accounts
  Opening,     \* quantity of each account at the start
  Overdrawn,   \* accounts that may go below zero
  NoKey,       \* the idempotency key of a line that has none
  Demands      \* sequences of lines a request may consist of

VARIABLES
  lines,       \* the lines of each request: [key, dir, qty, idem, ...]
  log,         \* the entries booked on each account, oldest first
  answer       \* what each request was told

acct == <<lines, log, answer>>

Signed(l) == IF l.dir = "IN" THEN l.qty ELSE -l.qty

Used(idem) == \E k \in Accounts : \E i \in DOMAIN log[k] : log[k][i].idem = idem

\* The lines of a request that concern account k, and where among them line i is.
Of(t, k) == {i \in DOMAIN lines[t] : lines[t][i].key = k}
Place(t, i) == Cardinality({j \in Of(t, lines[t][i].key) : j <= i})

AInit ==
  /\ lines \in [Tasks -> Demands]
  /\ log = [k \in Accounts |-> <<>>]
  /\ answer = [t \in Tasks |-> "pending"]

\* Each line becomes one entry of its account, in the order of the lines, which
\* starts where the entry before it ended; a key that has booked one books no
\* other.
Book(t) ==
  /\ answer[t] = "pending"
  /\ \A i \in DOMAIN lines[t] :
       lines[t][i].idem # NoKey => ~Used(lines[t][i].idem)
  /\ DOMAIN log' = Accounts
  /\ \A k \in Accounts :
       LET n == Len(log[k]) IN
       /\ Len(log'[k]) = n + Cardinality(Of(t, k))
       /\ \A i \in 1 .. n : log'[k][i] = log[k][i]
       /\ \A i \in Of(t, k) :
            LET p == n + Place(t, i)  e == log'[k][p]  l == lines[t][i] IN
            /\ e.by = t /\ e.dir = l.dir /\ e.qty = l.qty /\ e.idem = l.idem
            /\ e.before = IF p = 1 THEN Opening[k] ELSE log'[k][p - 1].after
            /\ e.after = e.before + Signed(l)
            /\ e.after >= 0 \/ k \in Overdrawn
  /\ answer' = [answer EXCEPT ![t] = "booked"]

\* One request is refused, or several at once when a process fails.
Refuse(T) ==
  /\ \A t \in T : answer[t] = "pending"
  /\ answer' = [t \in Tasks |-> IF t \in T THEN "refused" ELSE answer[t]]
  /\ log' = log

\* A retry is told of the entry its idempotency key has already booked.
Recall(t) ==
  /\ answer[t] = "pending"
  /\ \E i \in DOMAIN lines[t] :
       lines[t][i].idem # NoKey /\ Used(lines[t][i].idem)
  /\ answer' = [answer EXCEPT ![t] = "recalled"]
  /\ log' = log

ANext ==
  /\ lines' = lines
  /\ \/ \E t \in Tasks : Book(t) \/ Recall(t)
     \/ \E T \in SUBSET Tasks : Refuse(T)

ASpec == AInit /\ [][ANext]_acct
=============================================================================
