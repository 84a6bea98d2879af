---------------------------- MODULE ChainClient ----------------------------
(***************************************************************************)
(* How transactions reach the chain: agents/broker/chain_client.py and the *)
(* send() of the deploy scripts, several processes at a time, with the     *)
(* node's account nonces and mempool (external) between them.              *)
(*                                                                         *)
(* A call reads a nonce, signs, sends and waits for the receipt of its own *)
(* transaction, and other processes act in between.  The chain client asks *)
(* the node for the nonce of the latest block on every call; the scripts   *)
(* ask once per process and account and count from there.                  *)
(*                                                                         *)
(* What a call does, and whether it reverts, is left to BrokerGraph and    *)
(* Deployment: a reverted transaction is mined and receipted like another. *)
(***************************************************************************)
EXTENDS Naturals, Sequences

CONSTANTS
  Sender,        \* processes: demos, other users of ChainClient, scripts
  Account,       \* externally owned accounts
  MaxCalls       \* calls made by all processes together; bounds the model

ASSUME ClientAssumption == MaxCalls \in Nat

VARIABLES
  issued,        \* every call so far: who makes it, from which account, nonce
  call,          \* sender -> the call it makes or made last, 0 before any
  pc,            \* sender -> where it is in that call
  nonces,        \* sender -> the nonces a script keeps, account -> next nonce
  returned,      \* calls that returned a receipt to their sender
  latest,        \* account -> its nonce as of the latest block
  pool,          \* calls whose transaction waits in the mempool
  mined          \* calls whose transaction is in a block, in order

senderVars == <<issued, call, pc, nonces, returned>>
nodeVars == <<latest, pool, mined>>
clientVars == <<senderVars, nodeVars>>

Call == DOMAIN issued
Executed == {mined[i] : i \in DOMAIN mined}
NoNonces == [a \in {} |-> 0]

-----------------------------------------------------------------------------
(* A process *)

At(s, from, to) == pc[s] = from /\ pc' = [pc EXCEPT ![s] = to]

\* Wrong on purpose: the counted nonces outlive the process that counted.
StartAgain(s) ==
  /\ At(s, "over", "ready")
  /\ UNCHANGED <<issued, call, nonces, returned, nodeVars>>

\* A new process, which keeps no nonces yet.
Start(s) ==
  /\ At(s, "over", "ready")
  /\ nonces' = [nonces EXCEPT ![s] = NoNonces]
  /\ UNCHANGED <<issued, call, returned, nodeVars>>

Issue(s, a, nonce) ==
  /\ Len(issued) < MaxCalls
  /\ At(s, "ready", "built")
  /\ issued' = Append(issued, [by |-> s, from |-> a, nonce |-> nonce])
  /\ call' = [call EXCEPT ![s] = Len(issued) + 1]
  /\ UNCHANGED <<returned, nodeVars>>

\* build_transaction() with get_transaction_count() of the latest block.
BuildTransaction(s, a) ==
  /\ Issue(s, a, latest[a])
  /\ UNCHANGED nonces

\* The scripts' send(): nonces[wallet.address]++.  The count moves on here,
\* whether or not the transaction is sent after it.
BuildCounted(s, a) ==
  LET nonce == IF a \in DOMAIN nonces[s] THEN nonces[s][a] ELSE latest[a]
  IN  /\ Issue(s, a, nonce)
      /\ nonces' = [nonces EXCEPT ![s] =
                      [b \in DOMAIN @ \cup {a} |->
                         IF b = a THEN nonce + 1 ELSE @[b]]]

SameSlot(j, k) ==
  issued[j].from = issued[k].from /\ issued[j].nonce = issued[k].nonce

\* Wrong on purpose: the client takes the node's answer for a receipt.
SendAndReturn(s) ==
  /\ At(s, "built", "ready")
  /\ issued[call[s]].nonce >= latest[issued[call[s]].from]
  /\ pool' = {j \in pool : ~SameSlot(j, call[s])} \cup {call[s]}
  /\ returned' = returned \cup {call[s]}
  /\ UNCHANGED <<issued, call, nonces, latest, mined>>

\* send_raw_transaction(), and the node takes it.  It refuses a nonce that has
\* been mined.  A transaction waiting with the same nonce is replaced.
SendRawTransaction(s) ==
  /\ At(s, "built", "waiting")
  /\ issued[call[s]].nonce >= latest[issued[call[s]].from]
  /\ pool' = {j \in pool : ~SameSlot(j, call[s])} \cup {call[s]}
  /\ UNCHANGED <<issued, call, nonces, returned, latest, mined>>

\* The node refuses it (nonce too low, replacement underpriced, a revert), is
\* not reached, or the process is killed: run(), or the script, is over.
SendRaises(s) ==
  /\ At(s, "built", "over")
  /\ UNCHANGED <<issued, call, nonces, returned, nodeVars>>

\* wait_for_transaction_receipt() and tx.wait() ask for the one hash.
Receipt(s) ==
  /\ At(s, "waiting", "ready")
  /\ call[s] \in Executed
  /\ returned' = returned \cup {call[s]}
  /\ UNCHANGED <<issued, call, nonces, nodeVars>>

\* Wrong on purpose: only a transaction that is lost is given up.
TimesOutLost(s) ==
  /\ At(s, "waiting", "over")
  /\ call[s] \notin pool \cup Executed
  /\ UNCHANGED <<issued, call, nonces, returned, nodeVars>>

\* No receipt for 120 s; for a script, which waits without limit: it learns
\* that its transaction was replaced, or is killed.  The transaction stays
\* where it is.
TimesOut(s) ==
  /\ At(s, "waiting", "over")
  /\ UNCHANGED <<issued, call, nonces, returned, nodeVars>>

\* The process ends between two calls.
End(s) ==
  /\ At(s, "ready", "over")
  /\ UNCHANGED <<issued, call, nonces, returned, nodeVars>>

-----------------------------------------------------------------------------
(* The node *)

\* A block takes the transaction whose nonce is its account's turn.
Mine(k) ==
  /\ k \in pool
  /\ issued[k].nonce = latest[issued[k].from]
  /\ mined' = Append(mined, k)
  /\ latest' = [latest EXCEPT ![issued[k].from] = @ + 1]
  /\ pool' = pool \ {k}
  /\ UNCHANGED senderVars

\* The mempool forgets a transaction: eviction, or a restart of the node.
Drop(k) ==
  /\ k \in pool
  /\ pool' = pool \ {k}
  /\ UNCHANGED <<senderVars, latest, mined>>

ClientInit ==
  /\ issued = <<>>
  /\ call = [s \in Sender |-> 0]
  /\ pc = [s \in Sender |-> "over"]
  /\ nonces = [s \in Sender |-> NoNonces]
  /\ returned = {}
  /\ latest = [a \in Account |-> 0]
  /\ pool = {}
  /\ mined = <<>>

\* The steps of a call under way; each ends, by an error if not otherwise.
Sending(s) == SendRawTransaction(s) \/ SendRaises(s)
Waiting(s) == Receipt(s) \/ TimesOut(s)

NodeNext == \E k \in pool : Mine(k) \/ Drop(k)

ClientNext ==
  \/ \E s \in Sender :
       \/ Start(s) \/ End(s) \/ Sending(s) \/ Waiting(s)
       \/ \E a \in Account : BuildTransaction(s, a) \/ BuildCounted(s, a)
  \/ NodeNext

ClientSpec == ClientInit /\ [][ClientNext]_clientVars

-----------------------------------------------------------------------------
(* Properties *)

\* Types of the processes' and the node's state.
ClientTypeOK ==
  /\ issued \in Seq([by : Sender, from : Account, nonce : Nat])
  /\ call \in [Sender -> Nat]
  /\ pc \in [Sender -> {"over", "ready", "built", "waiting"}]
  /\ \A s \in Sender : pc[s] \in {"built", "waiting"} => call[s] \in Call
  /\ DOMAIN nonces = Sender
  /\ \A s \in Sender : \E A \in SUBSET Account : nonces[s] \in [A -> Nat]
  /\ returned \subseteq Call
  /\ latest \in [Account -> Nat]
  /\ pool \subseteq Call
  /\ mined \in Seq(Nat)
  /\ Executed \subseteq Call

\* Whatever was given up, replaced, refused or dropped, by however many
\* processes, an account never has a transaction waiting behind a nonce that
\* nobody fills: it has one at most, and that is the next to be mined.
NeverGapped ==
  \A k \in pool :
    /\ issued[k].nonce = latest[issued[k].from]
    /\ \A j \in pool : SameSlot(j, k) => j = k

\* The processes and the node together implement the abstract sequence of
\* calls: at most once, in the order of issue, and executed when returned.
Calls == INSTANCE CallLog WITH
  issued <- [k \in Call |-> [by |-> issued[k].by, from |-> issued[k].from]],
  executed <- mined

ImplementsCallLog == Calls!CallSpec
=============================================================================
