------------------------------ MODULE CallLog ------------------------------
(***************************************************************************)
(* What ChainClient promises to whoever calls the contracts through it, in *)
(* terms of no nonce and no mempool: a call issued for an account takes    *)
(* effect at most once, the calls of one account take effect in the order  *)
(* in which they were issued, whichever process issued them, and a call    *)
(* that returns has taken effect.  A call need not take effect at all, and *)
(* may do so after its process has given it up.                            *)
(***************************************************************************)
EXTENDS Naturals, Sequences

CONSTANTS
  Sender,        \* processes that issue calls
  Account        \* accounts they issue them for

VARIABLES
  issued,        \* the calls, in the order of their issue
  executed,      \* positions in issued, in the order of their execution
  returned       \* positions of the calls whose process saw them executed

callVars == <<issued, executed, returned>>

CallInit ==
  /\ issued = <<>>
  /\ executed = <<>>
  /\ returned = {}

IssueCall(s, a) ==
  /\ issued' = Append(issued, [by |-> s, from |-> a])
  /\ UNCHANGED <<executed, returned>>

\* A call that another one of its account has overtaken is lost.
ExecuteCall(k) ==
  /\ \A i \in DOMAIN executed :
       issued[executed[i]].from = issued[k].from => executed[i] < k
  /\ executed' = Append(executed, k)
  /\ UNCHANGED <<issued, returned>>

\* A process works on its latest call only.
ReturnCall(k) ==
  /\ k \in {executed[i] : i \in DOMAIN executed}
  /\ \A j \in DOMAIN issued : j > k => issued[j].by # issued[k].by
  /\ returned' = returned \cup {k}
  /\ UNCHANGED <<issued, executed>>

CallNext ==
  \/ \E s \in Sender, a \in Account : IssueCall(s, a)
  \/ \E k \in DOMAIN issued : ExecuteCall(k) \/ ReturnCall(k)

CallSpec == CallInit /\ [][CallNext]_callVars
=============================================================================
