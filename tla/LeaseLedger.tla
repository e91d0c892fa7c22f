----------------------------- MODULE LeaseLedger -----------------------------
(***************************************************************************)
(* What the token pool promises a proxied request, whatever the scheduling *)
(* of requests, administrators and clock: it holds at most one token at a  *)
(* time, tries at most MaxTries tokens, never the same one twice, and the  *)
(* load counted for a token is exactly the number of requests holding it.  *)
(***************************************************************************)
EXTENDS Integers, FiniteSets

CONSTANTS Tokens, Requests, None, MaxTries

VARIABLES
  held,   \* the token each request holds, or None
  spent,  \* the tokens each request has tried and given back
  load    \* the number of leases counted for each token

ledgerVars == <<held, spent, load>>

Init ==
  /\ held = [r \in Requests |-> None]
  /\ spent = [r \in Requests |-> {}]
  /\ load = [t \in Tokens |-> 0]

Lease(r, t) ==
  /\ held[r] = None
  /\ t \notin spent[r]
  /\ Cardinality(spent[r]) < MaxTries
  /\ held' = [held EXCEPT ![r] = t]
  /\ load' = [load EXCEPT ![t] = @ + 1]
  /\ UNCHANGED spent

\* The token failed: give it back to try another.
GiveBack(r) ==
  /\ held[r] # None
  /\ held' = [held EXCEPT ![r] = None]
  /\ spent' = [spent EXCEPT ![r] = @ \cup {held[r]}]
  /\ load' = [load EXCEPT ![held[r]] = @ - 1]

\* The request ends, with a token in its hands or without.
Finish(r) ==
  /\ held' = [held EXCEPT ![r] = None]
  /\ spent' = [spent EXCEPT ![r] = {}]
  /\ load' = IF held[r] = None THEN load
             ELSE [load EXCEPT ![held[r]] = @ - 1]

\* The server restarts with nothing in flight.
Reset ==
  /\ held' = [r \in Requests |-> None]
  /\ spent' = [r \in Requests |-> {}]
  /\ load' = [t \in Tokens |-> 0]

Next ==
  \/ \E r \in Requests :
       \/ \E t \in Tokens : Lease(r, t)
       \/ GiveBack(r)
       \/ Finish(r)
  \/ Reset

Spec == Init /\ [][Next]_ledgerVars
=============================================================================
