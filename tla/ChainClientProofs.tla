------------------------- MODULE ChainClientProofs -------------------------
(***************************************************************************)
(* Proofs about module ChainClient, for any number of processes, accounts  *)
(* and calls.  A transaction can be mined only while its nonce is its      *)
(* account's turn; since no nonce is ever ahead of the turn, a later call  *)
(* that was mined has taken the turn from every earlier one still under    *)
(* way.  That is the order of CallLog.                                     *)
(***************************************************************************)
EXTENDS ChainClient, TLAPS

UnderWay(s) == pc[s] \in {"built", "waiting"}

\* A transaction that may still be mined.
Live(k) ==
  k \in pool \/ \E s \in Sender : pc[s] = "built" /\ call[s] = k

\* A sender works on the latest call it issued.
OwnCall ==
  \A s \in Sender : UnderWay(s) =>
    /\ issued[call[s]].by = s
    /\ \A j \in Call : j > call[s] => issued[j].by # s

\* No nonce is ahead of its account's turn, and those mined are behind it.
NonceReached == \A k \in Call : issued[k].nonce <= latest[issued[k].from]
MinedPassed == \A k \in Executed : issued[k].nonce < latest[issued[k].from]

\* A live transaction whose turn it is was issued after all that were mined.
InTurn ==
  \A k \in Call :
    (Live(k) /\ issued[k].nonce = latest[issued[k].from]) =>
      \A j \in Executed : issued[j].from = issued[k].from => j < k

\* A script's count is ahead of the turn only by the call it is making.
Counted ==
  \A s \in Sender : \A a \in DOMAIN nonces[s] :
    \/ pc[s] = "over"
    \/ nonces[s][a] <= latest[a]
    \/ /\ UnderWay(s)
       /\ a = issued[call[s]].from
       /\ nonces[s][a] <= issued[call[s]].nonce + 1

ClientInv ==
  /\ ClientTypeOK /\ OwnCall /\ NonceReached /\ MinedPassed
  /\ InTurn /\ Counted /\ NeverGapped

Record == [by : Sender, from : Account, nonce : Nat]
Place == {"over", "ready", "built", "waiting"}

-----------------------------------------------------------------------------
(* Sequences *)

\* What is known of a call, as of an element of the sequence issued.
LEMMA CallRecord ==
  ASSUME ClientTypeOK
  PROVE  /\ Len(issued) \in Nat
         /\ Call = 1 .. Len(issued)
         /\ \A k \in Call : /\ issued[k].by \in Sender
                            /\ issued[k].from \in Account
                            /\ issued[k].nonce \in Nat
<1>1. issued \in Seq(Record)
  BY DEF ClientTypeOK, Record
<1>2. ASSUME NEW k \in Call
      PROVE  issued[k] \in Record
  BY <1>1, <1>2 DEF Call
<1> QED
  BY <1>1, <1>2 DEF Call, Record

\* Issuing a call adds one at the end and leaves the others alone.
LEMMA AppendCall ==
  ASSUME ClientTypeOK, NEW r \in Record, issued' = Append(issued, r)
  PROVE  /\ issued' \in Seq(Record)
         /\ Len(issued) + 1 \in Call'
         /\ issued'[Len(issued) + 1] = r
         /\ Call' = Call \cup {Len(issued) + 1}
         /\ \A k \in Call : issued'[k] = issued[k]
<1>1. issued \in Seq(Record)
  BY DEF ClientTypeOK, Record
<1> QED
  BY <1>1 DEF Call

\* Mining a transaction adds it to those executed.
LEMMA AppendMined ==
  ASSUME ClientTypeOK, NEW k \in Nat, mined' = Append(mined, k)
  PROVE  mined' \in Seq(Nat) /\ Executed' = Executed \cup {k}
<1>1. mined \in Seq(Nat) /\ Len(mined) \in Nat
  BY DEF ClientTypeOK
<1>2. mined' \in Seq(Nat) /\ Len(mined') = Len(mined) + 1
  BY <1>1
<1>3. DOMAIN mined = 1 .. Len(mined) /\ DOMAIN mined' = 1 .. Len(mined) + 1
  BY <1>1, <1>2
<1>4. /\ \A i \in 1 .. Len(mined) : mined'[i] = mined[i]
      /\ mined'[Len(mined) + 1] = k
  BY <1>1
<1>5. Executed' \subseteq Executed \cup {k}
  BY <1>1, <1>3, <1>4 DEF Executed
<1>6. Executed \cup {k} \subseteq Executed'
  BY <1>1, <1>3, <1>4 DEF Executed
<1> QED
  BY <1>2, <1>5, <1>6

LEMMA NoneCounted == NoNonces \in [{} -> Nat]
BY DEF NoNonces

-----------------------------------------------------------------------------
(* The steps of a process *)

\* A step by which a process moves on in its call: neither the calls nor the
\* node change.
Moves(s, from, to) ==
  /\ At(s, from, to)
  /\ UNCHANGED <<issued, call, latest, pool, mined>>

\* Whoever moves on towards the end of its call makes no transaction live.
LEMMA MoveKeepsOrder ==
  ASSUME ClientInv, NEW s \in Sender, NEW from \in Place, NEW to \in Place,
         Moves(s, from, to), to # "built", to = "waiting" => from = "built"
  PROVE  /\ pc' \in [Sender -> Place]
         /\ \A r \in Sender : r # s => pc'[r] = pc[r]
         /\ pc[s] = from /\ pc'[s] = to
         /\ \A r \in Sender : UnderWay(r)' => UnderWay(r)
         /\ OwnCall' /\ NonceReached' /\ MinedPassed' /\ InTurn' /\ NeverGapped'
<1> USE DEF Moves
<1>1. /\ pc' \in [Sender -> Place]
      /\ \A r \in Sender : r # s => pc'[r] = pc[r]
      /\ pc[s] = from /\ pc'[s] = to
  BY DEF ClientInv, ClientTypeOK, At, Place
<1>2. ASSUME NEW r \in Sender, UnderWay(r)'
      PROVE  UnderWay(r)
  BY <1>1, <1>2 DEF UnderWay
<1>3. Call' = Call /\ Executed' = Executed
  BY DEF Call, Executed
<1>4. ASSUME NEW k \in Call, Live(k)'
      PROVE  Live(k)
  BY <1>1, <1>4 DEF Live
<1>5. OwnCall'
  BY <1>2, <1>3 DEF ClientInv, OwnCall
<1>6. NonceReached' /\ MinedPassed' /\ NeverGapped'
  BY <1>3 DEF ClientInv, NonceReached, MinedPassed, NeverGapped, SameSlot
<1>7. InTurn'
  BY <1>3, <1>4 DEF ClientInv, InTurn
<1> QED
  BY <1>1, <1>2, <1>5, <1>6, <1>7

LEMMA StartKeeps ==
  ASSUME ClientInv, NEW s \in Sender, Start(s)
  PROVE  ClientInv'
<1> USE DEF Start, senderVars, nodeVars
<1>1. Moves(s, "over", "ready")
  BY DEF Moves
<1>2. /\ pc' \in [Sender -> Place]
      /\ \A r \in Sender : r # s => pc'[r] = pc[r]
      /\ pc[s] = "over" /\ pc'[s] = "ready"
      /\ \A r \in Sender : UnderWay(r)' => UnderWay(r)
      /\ OwnCall' /\ NonceReached' /\ MinedPassed' /\ InTurn' /\ NeverGapped'
  BY <1>1, MoveKeepsOrder DEF Place
<1>3. /\ DOMAIN nonces' = Sender
      /\ \A r \in Sender : nonces'[r] = IF r = s THEN NoNonces ELSE nonces[r]
  BY DEF ClientInv, ClientTypeOK
<1>4. NoNonces \in [{} -> Nat] /\ DOMAIN NoNonces = {}
  BY NoneCounted
<1>5. Call' = Call /\ Executed' = Executed
  BY DEF Call, Executed
<1>6. ClientTypeOK'
  BY <1>2, <1>3, <1>4, <1>5 DEF ClientInv, ClientTypeOK, Place, UnderWay
<1>7. Counted'
  BY <1>2, <1>3, <1>4 DEF ClientInv, Counted, UnderWay
<1> QED
  BY <1>2, <1>6, <1>7 DEF ClientInv

\* A process that gives up leaves everything but itself as it is.
LEMMA GiveUpKeeps ==
  ASSUME ClientInv, NEW s \in Sender, End(s) \/ SendRaises(s) \/ TimesOut(s)
  PROVE  ClientInv'
<1>1. UNCHANGED <<nonces, returned>>
  BY DEF End, SendRaises, TimesOut
<1>2. PICK from \in Place : Moves(s, from, "over")
  BY DEF End, SendRaises, TimesOut, Moves, nodeVars, Place
<1>3. /\ pc' \in [Sender -> Place]
      /\ \A r \in Sender : r # s => pc'[r] = pc[r]
      /\ pc'[s] = "over"
      /\ \A r \in Sender : UnderWay(r)' => UnderWay(r)
      /\ OwnCall' /\ NonceReached' /\ MinedPassed' /\ InTurn' /\ NeverGapped'
  BY <1>2, MoveKeepsOrder DEF Place
<1> USE DEF Moves
<1>4. Call' = Call /\ Executed' = Executed
  BY <1>2 DEF Call, Executed
<1>5. ClientTypeOK'
  BY <1>1, <1>2, <1>3, <1>4 DEF ClientInv, ClientTypeOK, Place, UnderWay
<1>6. Counted'
  BY <1>1, <1>2, <1>3 DEF ClientInv, Counted, UnderWay
<1> QED
  BY <1>3, <1>5, <1>6 DEF ClientInv

\* With the receipt the turn has passed the call, and the script's count with
\* it is no longer ahead.
LEMMA ReceiptKeeps ==
  ASSUME ClientInv, NEW s \in Sender, Receipt(s)
  PROVE  ClientInv'
<1> USE DEF Receipt, nodeVars
<1>1. Moves(s, "waiting", "ready")
  BY DEF Moves
<1>2. /\ pc' \in [Sender -> Place]
      /\ \A r \in Sender : r # s => pc'[r] = pc[r]
      /\ pc[s] = "waiting" /\ pc'[s] = "ready"
      /\ \A r \in Sender : UnderWay(r)' => UnderWay(r)
      /\ OwnCall' /\ NonceReached' /\ MinedPassed' /\ InTurn' /\ NeverGapped'
  BY <1>1, MoveKeepsOrder DEF Place
<1>3. Call' = Call /\ Executed' = Executed
  BY DEF Call, Executed
<1>4. ClientTypeOK'
  BY <1>2, <1>3 DEF ClientInv, ClientTypeOK, Place, UnderWay
<1>5. Counted'
  <2> SUFFICES ASSUME NEW r \in Sender, NEW a \in DOMAIN nonces[r]
               PROVE  \/ pc'[r] = "over"
                      \/ nonces[r][a] <= latest[a]
                      \/ /\ UnderWay(r)'
                         /\ a = issued[call[r]].from
                         /\ nonces[r][a] <= issued[call[r]].nonce + 1
    BY DEF Counted, UnderWay
  <2>1. CASE r # s
    BY <1>2, <2>1 DEF ClientInv, Counted, UnderWay
  <2>2. CASE r = s
    <3>1. /\ call[s] \in Executed /\ call[s] \in Call
          /\ issued[call[s]].nonce < latest[issued[call[s]].from]
          /\ issued[call[s]].nonce \in Nat
          /\ latest[issued[call[s]].from] \in Nat
      BY CallRecord DEF ClientInv, ClientTypeOK, MinedPassed
    <3>2. nonces[s][a] \in Nat
      BY <2>2 DEF ClientInv, ClientTypeOK
    <3>3. \/ nonces[s][a] <= latest[a]
          \/ /\ a = issued[call[s]].from
             /\ nonces[s][a] <= issued[call[s]].nonce + 1
      BY <1>2, <2>2 DEF ClientInv, Counted
    <3> QED
      BY <2>2, <3>1, <3>2, <3>3
  <2> QED
    BY <2>1, <2>2
<1> QED
  BY <1>2, <1>4, <1>5 DEF ClientInv

\* A call whose nonce is not ahead of the turn.  If it is its turn, it comes
\* after all that were mined, being the last issued.
LEMMA IssueKeepsOrder ==
  ASSUME ClientInv, NEW s \in Sender, NEW a \in Account, NEW nonce \in Nat,
         Issue(s, a, nonce), nonce <= latest[a]
  PROVE  /\ pc' \in [Sender -> Place]
         /\ \A r \in Sender : r # s => pc'[r] = pc[r] /\ call'[r] = call[r]
         /\ pc[s] = "ready" /\ pc'[s] = "built"
         /\ call' \in [Sender -> Nat] /\ call'[s] = Len(issued) + 1
         /\ issued' \in Seq(Record)
         /\ issued'[call'[s]] = [by |-> s, from |-> a, nonce |-> nonce]
         /\ Call' = Call \cup {call'[s]} /\ call'[s] \notin Call
         /\ \A k \in Call : issued'[k] = issued[k] /\ k < call'[s]
         /\ OwnCall' /\ NonceReached' /\ MinedPassed' /\ InTurn' /\ NeverGapped'
<1> DEFINE new == Len(issued) + 1
           r0 == [by |-> s, from |-> a, nonce |-> nonce]
<1> USE DEF Issue, nodeVars
<1>1. /\ ClientTypeOK /\ r0 \in Record /\ issued' = Append(issued, r0)
      /\ r0.by = s /\ r0.from = a /\ r0.nonce = nonce
      /\ UNCHANGED <<returned, latest, pool, mined>>
  BY DEF ClientInv, Record
<1>2. /\ Len(issued) \in Nat /\ Call = 1 .. Len(issued)
      /\ \A k \in Call : /\ issued[k].by \in Sender
                         /\ issued[k].from \in Account
                         /\ issued[k].nonce \in Nat
  BY <1>1, CallRecord
<1>3. /\ issued' \in Seq(Record) /\ issued'[new] = r0
      /\ Call' = Call \cup {new} /\ new \notin Call
      /\ \A k \in Call : issued'[k] = issued[k] /\ k < new
  BY <1>1, <1>2, AppendCall
<1>4. /\ pc' \in [Sender -> Place] /\ call' \in [Sender -> Nat]
      /\ \A r \in Sender : r # s => pc'[r] = pc[r] /\ call'[r] = call[r]
      /\ pc[s] = "ready" /\ pc'[s] = "built" /\ call'[s] = new
  BY <1>1, <1>2 DEF ClientTypeOK, At, Place
<1>5. Executed' = Executed /\ Executed \subseteq Call /\ pool \subseteq Call
  BY <1>1 DEF Executed, ClientTypeOK
<1>6. OwnCall'
  <2> SUFFICES ASSUME NEW r \in Sender, UnderWay(r)'
               PROVE  /\ issued'[call'[r]].by = r
                      /\ \A j \in Call' : j > call'[r] => issued'[j].by # r
    BY DEF OwnCall
  <2>1. CASE r = s
    BY <1>2, <1>3, <1>4, <2>1
  <2>2. CASE r # s
    <3>1. UnderWay(r) /\ call[r] \in Call
      BY <1>1, <1>4, <2>2 DEF UnderWay, ClientTypeOK
    <3>2. /\ issued[call[r]].by = r
          /\ \A j \in Call : j > call[r] => issued[j].by # r
      BY <3>1 DEF ClientInv, OwnCall
    <3>3. call'[r] = call[r] /\ issued'[call[r]] = issued[call[r]]
      BY <1>3, <1>4, <2>2, <3>1
    <3>4. ASSUME NEW j \in Call', j > call[r]
          PROVE  issued'[j].by # r
      <4>1. CASE j = new
        BY <1>1, <1>3, <2>2, <4>1
      <4>2. CASE j # new
        BY <1>3, <3>2, <3>4, <4>2
      <4> QED
        BY <4>1, <4>2
    <3> QED
      BY <3>2, <3>3, <3>4
  <2> QED
    BY <2>1, <2>2
<1>7. NonceReached'
  <2> SUFFICES ASSUME NEW k \in Call'
               PROVE  issued'[k].nonce <= latest[issued'[k].from]
    BY <1>1 DEF NonceReached
  <2>1. CASE k = new
    BY <1>1, <1>3, <2>1
  <2>2. CASE k # new
    BY <1>3, <2>2 DEF ClientInv, NonceReached
  <2> QED
    BY <2>1, <2>2
<1>8. MinedPassed' /\ NeverGapped'
  <2>1. \A k \in Executed \cup pool : issued'[k] = issued[k]
    BY <1>3, <1>5
  <2>2. MinedPassed'
    BY <1>1, <1>5, <2>1 DEF ClientInv, MinedPassed
  <2>3. ASSUME NEW k \in pool
        PROVE  /\ issued'[k].nonce = latest[issued'[k].from]
               /\ \A j \in pool : SameSlot(j, k)' => j = k
    <3>1. issued'[k] = issued[k] /\ \A j \in pool : issued'[j] = issued[j]
      BY <2>1
    <3>2. /\ issued[k].nonce = latest[issued[k].from]
          /\ \A j \in pool : SameSlot(j, k) => j = k
      BY DEF ClientInv, NeverGapped
    <3> QED
      BY <3>1, <3>2 DEF SameSlot
  <2>4. NeverGapped'
    BY <1>1, <2>3 DEF NeverGapped, SameSlot
  <2> QED
    BY <2>2, <2>4
<1>9. InTurn'
  <2> SUFFICES ASSUME NEW k \in Call', Live(k)',
                      issued'[k].nonce = latest[issued'[k].from],
                      NEW j \in Executed, issued'[j].from = issued'[k].from
               PROVE  j < k
    BY <1>1, <1>5 DEF InTurn
  <2>1. CASE k = new
    BY <1>2, <1>5, <2>1
  <2>2. CASE k # new
    <3>1. k \in Call /\ issued'[k] = issued[k]
      BY <1>3, <2>2
    <3>2. Live(k)
      BY <1>1, <1>4, <2>2 DEF Live
    <3> QED
      BY <1>3, <1>5, <3>1, <3>2 DEF ClientInv, InTurn
  <2> QED
    BY <2>1, <2>2
<1> QED
  BY <1>3, <1>4, <1>6, <1>7, <1>8, <1>9

LEMMA BuildTransactionKeeps ==
  ASSUME ClientInv, NEW s \in Sender, NEW a \in Account, BuildTransaction(s, a)
  PROVE  ClientInv'
<1>1. /\ Issue(s, a, latest[a]) /\ UNCHANGED nonces
      /\ latest[a] \in Nat /\ latest[a] <= latest[a]
  BY DEF BuildTransaction, ClientInv, ClientTypeOK
<1>2. UNCHANGED <<returned, latest, pool, mined>>
  BY <1>1 DEF Issue, nodeVars
<1>3. /\ pc' \in [Sender -> Place]
      /\ \A r \in Sender : r # s => pc'[r] = pc[r] /\ call'[r] = call[r]
      /\ pc[s] = "ready" /\ pc'[s] = "built"
      /\ call' \in [Sender -> Nat]
      /\ issued' \in Seq(Record)
      /\ Call' = Call \cup {call'[s]}
      /\ \A k \in Call : issued'[k] = issued[k]
      /\ OwnCall' /\ NonceReached' /\ MinedPassed' /\ InTurn' /\ NeverGapped'
  BY <1>1, IssueKeepsOrder
<1>4. Executed' = Executed
  BY <1>2 DEF Executed
<1>5. ClientTypeOK'
  BY <1>1, <1>2, <1>3, <1>4 DEF ClientInv, ClientTypeOK, Place, Record
<1>6. Counted'
  <2> SUFFICES ASSUME NEW r \in Sender, NEW b \in DOMAIN nonces[r]
               PROVE  \/ pc'[r] = "over"
                      \/ nonces[r][b] <= latest[b]
                      \/ /\ UnderWay(r)'
                         /\ b = issued'[call'[r]].from
                         /\ nonces[r][b] <= issued'[call'[r]].nonce + 1
    BY <1>1, <1>2 DEF Counted
  <2>1. CASE r = s
    BY <1>3, <2>1 DEF ClientInv, Counted, UnderWay
  <2>2. CASE r # s
    <3>1. /\ pc'[r] = pc[r] /\ (UnderWay(r)' <=> UnderWay(r))
          /\ UnderWay(r) => issued'[call'[r]] = issued[call[r]]
      BY <1>3, <2>2 DEF ClientInv, ClientTypeOK, UnderWay
    <3> QED
      BY <3>1 DEF ClientInv, Counted
  <2> QED
    BY <2>1, <2>2
<1> QED
  BY <1>3, <1>5, <1>6 DEF ClientInv

\* A script between two calls counts no further than the turn, so the call it
\* builds is not ahead of it; the count then is ahead by that call.
LEMMA BuildCountedKeeps ==
  ASSUME ClientInv, NEW s \in Sender, NEW a \in Account, BuildCounted(s, a)
  PROVE  ClientInv'
<1> DEFINE nonce == IF a \in DOMAIN nonces[s] THEN nonces[s][a] ELSE latest[a]
           counts == [b \in DOMAIN nonces[s] \cup {a} |->
                        IF b = a THEN nonce + 1 ELSE nonces[s][b]]
<1>1. Issue(s, a, nonce) /\ nonces' = [nonces EXCEPT ![s] = counts]
  BY DEF BuildCounted
<1>2. pc[s] = "ready"
  BY <1>1 DEF Issue, At
<1>3. PICK A \in SUBSET Account : nonces[s] \in [A -> Nat]
  BY DEF ClientInv, ClientTypeOK
<1>4. nonce \in Nat /\ nonce <= latest[a]
  <2>1. latest[a] \in Nat /\ latest[a] <= latest[a]
    BY DEF ClientInv, ClientTypeOK
  <2>2. ASSUME a \in DOMAIN nonces[s]
        PROVE  nonces[s][a] \in Nat /\ nonces[s][a] <= latest[a]
    <3>1. nonces[s][a] \in Nat
      BY <1>3, <2>2
    <3> QED
      BY <1>2, <2>2, <3>1 DEF ClientInv, Counted, UnderWay
  <2> QED
    BY <2>1, <2>2
<1>5. counts \in [A \cup {a} -> Nat] /\ counts[a] = nonce + 1
  BY <1>3, <1>4
<1>6. \A b \in A \ {a} : counts[b] = nonces[s][b]
  BY <1>3
<1>7. /\ DOMAIN nonces' = Sender /\ nonces'[s] = counts
      /\ \A r \in Sender : r # s => nonces'[r] = nonces[r]
  BY <1>1 DEF ClientInv, ClientTypeOK
<1>8. UNCHANGED <<returned, latest, pool, mined>>
  BY <1>1 DEF Issue, nodeVars
<1> HIDE DEF nonce, counts
<1>9. /\ pc' \in [Sender -> Place]
      /\ \A r \in Sender : r # s => pc'[r] = pc[r] /\ call'[r] = call[r]
      /\ pc[s] = "ready" /\ pc'[s] = "built"
      /\ call' \in [Sender -> Nat]
      /\ issued' \in Seq(Record)
      /\ issued'[call'[s]] = [by |-> s, from |-> a, nonce |-> nonce]
      /\ Call' = Call \cup {call'[s]}
      /\ \A k \in Call : issued'[k] = issued[k]
      /\ OwnCall' /\ NonceReached' /\ MinedPassed' /\ InTurn' /\ NeverGapped'
  BY <1>1, <1>4, IssueKeepsOrder
<1>10. Executed' = Executed
  BY <1>8 DEF Executed
<1>11. ASSUME NEW r \in Sender
       PROVE  \E B \in SUBSET Account : nonces'[r] \in [B -> Nat]
  <2>1. CASE r = s
    BY <1>5, <1>7, <2>1
  <2>2. CASE r # s
    BY <1>7, <2>2 DEF ClientInv, ClientTypeOK
  <2> QED
    BY <2>1, <2>2
<1>12. ClientTypeOK'
  BY <1>7, <1>8, <1>9, <1>10, <1>11 DEF ClientInv, ClientTypeOK, Place, Record
<1>13. Counted'
  <2> SUFFICES ASSUME NEW r \in Sender, NEW b \in DOMAIN nonces'[r]
               PROVE  \/ pc'[r] = "over"
                      \/ nonces'[r][b] <= latest[b]
                      \/ /\ UnderWay(r)'
                         /\ b = issued'[call'[r]].from
                         /\ nonces'[r][b] <= issued'[call'[r]].nonce + 1
    BY <1>8 DEF Counted
  <2>1. CASE r = s /\ b = a
    BY <1>4, <1>5, <1>7, <1>9, <2>1 DEF UnderWay
  <2>2. CASE r = s /\ b # a
    <3>1. b \in A /\ nonces'[s][b] = nonces[s][b] /\ b \in DOMAIN nonces[s]
      BY <1>3, <1>5, <1>6, <1>7, <2>2
    <3> QED
      BY <1>2, <2>2, <3>1 DEF ClientInv, Counted, UnderWay
  <2>3. CASE r # s
    <3>1. /\ pc'[r] = pc[r] /\ (UnderWay(r)' <=> UnderWay(r))
          /\ UnderWay(r) => issued'[call'[r]] = issued[call[r]]
      BY <1>9, <2>3 DEF ClientInv, ClientTypeOK, UnderWay
    <3> QED
      BY <1>7, <2>3, <3>1 DEF ClientInv, Counted
  <2> QED
    BY <2>1, <2>2, <2>3
<1> QED
  BY <1>9, <1>12, <1>13 DEF ClientInv

\* The node takes a transaction whose nonce is not mined, which then is the
\* account's turn; the one it had with that nonce makes way.
LEMMA SendKeeps ==
  ASSUME ClientInv, NEW s \in Sender, SendRawTransaction(s)
  PROVE  ClientInv'
<1> USE DEF SendRawTransaction
<1>1. /\ pc' \in [Sender -> Place]
      /\ \A r \in Sender : r # s => pc'[r] = pc[r]
      /\ pc[s] = "built" /\ pc'[s] = "waiting"
  BY DEF ClientInv, ClientTypeOK, At, Place
<1>2. call[s] \in Call
  BY <1>1 DEF ClientInv, ClientTypeOK
<1>3. issued[call[s]].nonce = latest[issued[call[s]].from]
  BY <1>2, CallRecord DEF ClientInv, ClientTypeOK, NonceReached
<1>4. Call' = Call /\ Executed' = Executed
  BY DEF Call, Executed
<1>5. ASSUME NEW r \in Sender
      PROVE  UnderWay(r)' <=> UnderWay(r)
  BY <1>1, <1>5 DEF UnderWay
<1>6. ASSUME NEW k \in Call, Live(k)'
      PROVE  Live(k)
  BY <1>1, <1>6 DEF Live
<1>7. ClientTypeOK'
  BY <1>1, <1>2, <1>4 DEF ClientInv, ClientTypeOK, Place
<1>8. OwnCall'
  BY <1>4, <1>5 DEF ClientInv, OwnCall
<1>9. NonceReached' /\ MinedPassed'
  BY <1>4 DEF ClientInv, NonceReached, MinedPassed
<1>10. InTurn'
  BY <1>4, <1>6 DEF ClientInv, InTurn
<1>11. Counted'
  BY <1>1, <1>5 DEF ClientInv, Counted, UnderWay
<1>12. NeverGapped'
  BY <1>3 DEF ClientInv, NeverGapped, SameSlot
<1> QED
  BY <1>7, <1>8, <1>9, <1>10, <1>11, <1>12 DEF ClientInv

-----------------------------------------------------------------------------
(* The steps of the node *)

LEMMA MineKeeps ==
  ASSUME ClientInv, NEW k \in pool, Mine(k)
  PROVE  ClientInv'
<1> DEFINE a == issued[k].from
<1> USE DEF Mine, senderVars
<1>1. k \in Call /\ k \in Nat /\ a \in Account /\ issued[k].nonce = latest[a]
  BY CallRecord DEF ClientInv, ClientTypeOK
<1>2. mined' \in Seq(Nat) /\ Executed' = Executed \cup {k}
  BY <1>1, AppendMined DEF ClientInv
<1>3. /\ latest' \in [Account -> Nat] /\ latest'[a] = latest[a] + 1
      /\ \A b \in Account : b # a => latest'[b] = latest[b]
      /\ \A b \in Account : latest[b] \in Nat /\ latest[b] <= latest'[b]
  <2>1. latest \in [Account -> Nat] /\ latest' = [latest EXCEPT ![a] = @ + 1]
    BY DEF ClientInv, ClientTypeOK
  <2>2. /\ latest' \in [Account -> Nat] /\ latest'[a] = latest[a] + 1
        /\ \A b \in Account : b # a => latest'[b] = latest[b]
    BY <1>1, <2>1
  <2>3. ASSUME NEW b \in Account
        PROVE  latest[b] \in Nat /\ latest[b] <= latest'[b]
    BY <1>1, <2>1
  <2> QED
    BY <2>2, <2>3
<1> HIDE DEF a
<1>4. Call' = Call
  BY DEF Call
<1>5. \A j \in Call : /\ issued[j].from \in Account
                      /\ issued[j].nonce \in Nat
                      /\ issued[j].nonce <= latest[issued[j].from]
  BY CallRecord DEF ClientInv, NonceReached
<1>6. ClientTypeOK'
  BY <1>1, <1>2, <1>3, <1>4 DEF ClientInv, ClientTypeOK
<1>7. OwnCall'
  BY <1>4 DEF ClientInv, OwnCall, UnderWay
<1>8. NonceReached'
  <2>1. ASSUME NEW j \in Call
        PROVE  issued[j].nonce <= latest'[issued[j].from]
    BY <1>3, <1>5
  <2> QED
    BY <1>4, <2>1 DEF NonceReached
<1>9. MinedPassed'
  <2>1. ASSUME NEW j \in Executed
        PROVE  issued[j].nonce < latest'[issued[j].from]
    <3>1. /\ j \in Call
          /\ issued[j].nonce < latest[issued[j].from]
      BY DEF ClientInv, ClientTypeOK, MinedPassed
    <3> QED
      BY <1>3, <1>5, <3>1
  <2>2. issued[k].nonce < latest'[issued[k].from]
    BY <1>1, <1>3 DEF a
  <2> QED
    BY <1>2, <2>1, <2>2 DEF MinedPassed
<1>10. InTurn'
  <2> SUFFICES ASSUME NEW j \in Call, Live(j)',
                      issued[j].nonce = latest'[issued[j].from],
                      NEW i \in Executed', issued[i].from = issued[j].from
               PROVE  i < j
    BY <1>4 DEF InTurn
  <2>1. issued[j].from # a
    BY <1>1, <1>3, <1>5
  <2>2. i \in Executed
    BY <1>2, <2>1 DEF a
  <2>3. issued[j].nonce = latest[issued[j].from]
    BY <1>3, <1>5, <2>1
  <2>4. Live(j)
    BY DEF Live
  <2> QED
    BY <2>2, <2>3, <2>4 DEF ClientInv, InTurn
<1>11. Counted'
  <2> SUFFICES ASSUME NEW r \in Sender, NEW b \in DOMAIN nonces[r]
               PROVE  \/ pc[r] = "over"
                      \/ nonces[r][b] <= latest'[b]
                      \/ /\ UnderWay(r)
                         /\ b = issued[call[r]].from
                         /\ nonces[r][b] <= issued[call[r]].nonce + 1
    BY DEF Counted, UnderWay
  <2>1. b \in Account /\ nonces[r][b] \in Nat
    BY DEF ClientInv, ClientTypeOK
  <2>2. \/ pc[r] = "over"
        \/ nonces[r][b] <= latest[b]
        \/ /\ UnderWay(r)
           /\ b = issued[call[r]].from
           /\ nonces[r][b] <= issued[call[r]].nonce + 1
    BY DEF ClientInv, Counted
  <2>3. nonces[r][b] <= latest[b] => nonces[r][b] <= latest'[b]
    BY <1>3, <2>1
  <2> QED
    BY <2>2, <2>3
<1>12. NeverGapped'
  <2>1. ASSUME NEW j \in pool \ {k}
        PROVE  issued[j].nonce = latest'[issued[j].from]
    <3>1. /\ j \in Call
          /\ issued[j].nonce = latest[issued[j].from]
          /\ ~SameSlot(j, k)
      BY DEF ClientInv, ClientTypeOK, NeverGapped
    <3>2. issued[j].from # a
      BY <1>1, <3>1 DEF SameSlot, a
    <3> QED
      BY <1>3, <1>5, <3>1, <3>2
  <2> QED
    BY <2>1 DEF ClientInv, NeverGapped, SameSlot
<1> QED
  BY <1>6, <1>7, <1>8, <1>9, <1>10, <1>11, <1>12 DEF ClientInv

LEMMA DropKeeps ==
  ASSUME ClientInv, NEW k \in pool, Drop(k)
  PROVE  ClientInv'
<1> USE DEF Drop, senderVars
<1>1. Call' = Call /\ Executed' = Executed
  BY DEF Call, Executed
<1>2. ClientTypeOK'
  BY <1>1 DEF ClientInv, ClientTypeOK
<1>3. OwnCall' /\ NonceReached' /\ MinedPassed'
  BY <1>1 DEF ClientInv, OwnCall, NonceReached, MinedPassed, UnderWay
<1>4. InTurn'
  BY <1>1 DEF ClientInv, InTurn, Live
<1>5. Counted'
  BY DEF ClientInv, Counted, UnderWay
<1>6. NeverGapped'
  BY DEF ClientInv, NeverGapped, SameSlot
<1> QED
  BY <1>2, <1>3, <1>4, <1>5, <1>6 DEF ClientInv

-----------------------------------------------------------------------------
(* The inductive invariant *)

LEMMA InitInv == ClientInit => ClientInv
<1> SUFFICES ASSUME ClientInit PROVE ClientInv
  OBVIOUS
<1> USE DEF ClientInit
<1>1. Call = {} /\ Executed = {}
  BY DEF Call, Executed
<1>2. ClientTypeOK
  <2>1. DOMAIN nonces = Sender
    OBVIOUS
  <2>2. \A s \in Sender : nonces[s] \in [{} -> Nat]
    BY NoneCounted
  <2> QED
    BY <1>1, <2>1, <2>2 DEF ClientTypeOK
<1>3. OwnCall /\ NonceReached /\ MinedPassed /\ InTurn
  BY <1>1 DEF OwnCall, NonceReached, MinedPassed, InTurn, UnderWay
<1>4. Counted /\ NeverGapped
  BY DEF Counted, NeverGapped
<1> QED
  BY <1>2, <1>3, <1>4 DEF ClientInv

LEMMA StepInv == ClientInv /\ [ClientNext]_clientVars => ClientInv'
<1> SUFFICES ASSUME ClientInv, [ClientNext]_clientVars PROVE ClientInv'
  OBVIOUS
<1>1. ASSUME NEW s \in Sender, Start(s) PROVE ClientInv'
  BY <1>1, StartKeeps
<1>2. ASSUME NEW s \in Sender, End(s) \/ SendRaises(s) \/ TimesOut(s)
      PROVE  ClientInv'
  BY <1>2, GiveUpKeeps
<1>3. ASSUME NEW s \in Sender, SendRawTransaction(s) PROVE ClientInv'
  BY <1>3, SendKeeps
<1>4. ASSUME NEW s \in Sender, Receipt(s) PROVE ClientInv'
  BY <1>4, ReceiptKeeps
<1>5. ASSUME NEW s \in Sender, NEW a \in Account, BuildTransaction(s, a)
      PROVE  ClientInv'
  BY <1>5, BuildTransactionKeeps
<1>6. ASSUME NEW s \in Sender, NEW a \in Account, BuildCounted(s, a)
      PROVE  ClientInv'
  BY <1>6, BuildCountedKeeps
<1>7. ASSUME NEW k \in pool, Mine(k) PROVE ClientInv'
  BY <1>7, MineKeeps
<1>8. ASSUME NEW k \in pool, Drop(k) PROVE ClientInv'
  BY <1>8, DropKeeps
<1>9. CASE UNCHANGED clientVars
  <2>1. UNCHANGED <<issued, call, pc, nonces, returned, latest, pool, mined>>
    BY <1>9 DEF clientVars, senderVars, nodeVars
  <2>2. Call' = Call /\ Executed' = Executed
    BY <2>1 DEF Call, Executed
  <2> QED
    BY <2>1, <2>2 DEF ClientInv, ClientTypeOK, OwnCall, NonceReached,
       MinedPassed, InTurn, Counted, NeverGapped, SameSlot, Live, UnderWay
<1> QED
  BY <1>1, <1>2, <1>3, <1>4, <1>5, <1>6, <1>7, <1>8, <1>9
     DEF ClientNext, NodeNext, Sending, Waiting

THEOREM ClientInvariant == ClientSpec => []ClientInv
BY InitInv, StepInv, PTL DEF ClientSpec

\* The state of any number of processes, and of the node, has its types.
THEOREM ClientTypeCorrect == ClientSpec => []ClientTypeOK
<1>1. ClientInv => ClientTypeOK
  BY DEF ClientInv
<1> QED
  BY <1>1, ClientInvariant, PTL

\* However many processes share an account and whatever becomes of their
\* transactions, none waits behind a nonce that nobody fills.
THEOREM NeverGappedAlways == ClientSpec => []NeverGapped
<1>1. ClientInv => NeverGapped
  BY DEF ClientInv
<1> QED
  BY <1>1, ClientInvariant, PTL

-----------------------------------------------------------------------------
(* The abstract sequence of calls *)

\* The calls as CallLog knows them.
Seen == [k \in Call |-> [by |-> issued[k].by, from |-> issued[k].from]]

LEMMA AppendIs ==
  ASSUME NEW S, NEW t \in Seq(S), NEW e \in S, NEW u \in Seq(S),
         Len(u) = Len(t) + 1, u[Len(t) + 1] = e,
         \A i \in 1 .. Len(t) : u[i] = t[i]
  PROVE  u = Append(t, e)
OBVIOUS

LEMMA IssueSeen ==
  ASSUME ClientInv, NEW s \in Sender, NEW a \in Account, NEW nonce \in Nat,
         Issue(s, a, nonce)
  PROVE  Seen' = Append(Seen, [by |-> s, from |-> a])
<1> DEFINE new == Len(issued) + 1
           r0 == [by |-> s, from |-> a, nonce |-> nonce]
           View(r) == [by |-> r.by, from |-> r.from]
<1>1. ClientTypeOK /\ r0 \in Record /\ issued' = Append(issued, r0)
  BY DEF Issue, ClientInv, Record
<1>2. Len(issued) \in Nat /\ Call = 1 .. Len(issued)
  BY <1>1, CallRecord
<1>3. /\ issued'[new] = r0 /\ Call' = 1 .. new
      /\ \A k \in Call : issued'[k] = issued[k]
  BY <1>1, <1>2, AppendCall
<1>4. View(r0) = [by |-> s, from |-> a]
  OBVIOUS
<1>5. /\ Seen = [k \in 1 .. Len(issued) |-> View(issued[k])]
      /\ Seen' = [k \in 1 .. new |-> View(issued'[k])]
  BY <1>2, <1>3 DEF Seen
<1> DEFINE Views == {View(r) : r \in Record}
<1>6. \A k \in 1 .. Len(issued) : issued[k] \in Record
  <2>1. issued \in Seq(Record)
    BY <1>1 DEF ClientTypeOK, Record
  <2> QED
    BY <2>1
<1> HIDE DEF View, r0
<1>7. Seen \in Seq(Views) /\ Len(Seen) = Len(issued)
  BY <1>2, <1>5, <1>6
<1>8. View(r0) \in Views
  BY <1>1
<1>9. Seen' \in Seq(Views) /\ Len(Seen') = Len(Seen) + 1
  <2>1. \A k \in 1 .. new : issued'[k] \in Record
    BY <1>1, <1>2, <1>3, <1>6
  <2> QED
    BY <1>2, <1>5, <1>7, <2>1
<1>10. Seen'[Len(Seen) + 1] = View(r0)
  BY <1>2, <1>3, <1>5, <1>7
<1>11. \A k \in 1 .. Len(Seen) : Seen'[k] = Seen[k]
  BY <1>2, <1>3, <1>5, <1>7
<1> QED
  BY <1>4, <1>7, <1>8, <1>9, <1>10, <1>11, AppendIs

LEMMA SeenUnchanged == UNCHANGED issued => Seen' = Seen
BY DEF Seen, Call

\* Building a call issues it, mining executes it and the receipt returns it;
\* whatever else processes and node do is no step of CallLog.
LEMMA StepSimulation ==
  ClientInv /\ [ClientNext]_clientVars => [Calls!CallNext]_(Calls!callVars)
<1> SUFFICES ASSUME ClientInv, [ClientNext]_clientVars
             PROVE  [Calls!CallNext]_(Calls!callVars)
  OBVIOUS
<1> USE DEF senderVars, nodeVars
<1>1. Call = 1 .. Len(issued) /\ Len(issued) \in Nat
  BY CallRecord DEF ClientInv
<1>2. /\ DOMAIN Seen = Call
      /\ \A k \in Call : Seen[k].by = issued[k].by /\ Seen[k].from = issued[k].from
  BY DEF Seen
<1>3. ASSUME UNCHANGED <<issued, mined, returned>>
      PROVE  UNCHANGED Calls!callVars
  BY <1>3, SeenUnchanged DEF Calls!callVars, Seen
<1>4. ASSUME NEW s \in Sender, NEW a \in Account, NEW nonce \in Nat,
             Issue(s, a, nonce)
      PROVE  Calls!IssueCall(s, a)
  <2>1. Seen' = Append(Seen, [by |-> s, from |-> a])
    BY <1>4, IssueSeen
  <2>2. UNCHANGED <<mined, returned>>
    BY <1>4 DEF Issue
  <2> QED
    BY <2>1, <2>2 DEF Calls!IssueCall, Seen
<1>5. ASSUME NEW s \in Sender, NEW a \in Account,
             BuildTransaction(s, a) \/ BuildCounted(s, a)
      PROVE  Calls!IssueCall(s, a)
  <2>1. PICK nonce \in Nat : Issue(s, a, nonce)
    <3>1. CASE BuildTransaction(s, a)
      BY <3>1 DEF BuildTransaction, ClientInv, ClientTypeOK
    <3>2. CASE BuildCounted(s, a)
      BY <3>2 DEF BuildCounted, ClientInv, ClientTypeOK
    <3> QED
      BY <1>5, <3>1, <3>2
  <2> QED
    BY <1>4, <2>1
<1>6. ASSUME NEW s \in Sender, Receipt(s)
      PROVE  \E k \in DOMAIN Seen : Calls!ReturnCall(k)
  <2>1. /\ call[s] \in Executed /\ call[s] \in Call /\ UnderWay(s)
        /\ returned' = returned \cup {call[s]}
        /\ UNCHANGED <<issued, mined>>
    BY <1>6 DEF Receipt, At, UnderWay, ClientInv, ClientTypeOK
  <2>2. /\ issued[call[s]].by = s
        /\ \A j \in Call : j > call[s] => issued[j].by # s
    BY <2>1 DEF ClientInv, OwnCall
  <2>3. \A j \in DOMAIN Seen : j > call[s] => Seen[j].by # Seen[call[s]].by
    BY <1>2, <2>1, <2>2
  <2>4. Seen' = Seen
    BY <2>1, SeenUnchanged
  <2>5. Calls!ReturnCall(call[s])
    BY <2>1, <2>3, <2>4 DEF Calls!ReturnCall, Executed, Seen
  <2> QED
    BY <1>2, <2>1, <2>5
<1>7. ASSUME NEW k \in pool, Mine(k)
      PROVE  k \in DOMAIN Seen /\ Calls!ExecuteCall(k)
  <2>1. k \in Call /\ Live(k) /\ issued[k].nonce = latest[issued[k].from]
    BY <1>7 DEF Mine, Live, ClientInv, ClientTypeOK
  <2>2. \A j \in Executed : issued[j].from = issued[k].from => j < k
    BY <2>1 DEF ClientInv, InTurn
  <2>3. \A i \in DOMAIN mined : mined[i] \in Executed /\ mined[i] \in Call
    BY DEF Executed, ClientInv, ClientTypeOK
  <2>4. \A i \in DOMAIN mined : Seen[mined[i]].from = Seen[k].from => mined[i] < k
    BY <1>2, <2>1, <2>2, <2>3
  <2>5. Seen' = Seen /\ mined' = Append(mined, k) /\ returned' = returned
    BY <1>7, SeenUnchanged DEF Mine
  <2>6. Calls!ExecuteCall(k)
    BY <2>4, <2>5 DEF Calls!ExecuteCall, Seen
  <2> QED
    BY <1>2, <2>1, <2>6
<1>8. ASSUME NEW s \in Sender,
             \/ Start(s) \/ End(s) \/ SendRawTransaction(s)
             \/ SendRaises(s) \/ TimesOut(s)
      PROVE  UNCHANGED <<issued, mined, returned>>
  BY <1>8 DEF Start, End, SendRawTransaction, SendRaises, TimesOut
<1>9. ASSUME NEW k \in pool, Drop(k)
      PROVE  UNCHANGED <<issued, mined, returned>>
  BY <1>9 DEF Drop
<1>10. CASE UNCHANGED clientVars
  BY <1>3, <1>10 DEF clientVars
<1>11. CASE ClientNext
  <2>1. \/ \E s \in Sender : Start(s) \/ End(s) \/ SendRawTransaction(s)
                               \/ SendRaises(s) \/ TimesOut(s)
        \/ \E s \in Sender, a \in Account :
             BuildTransaction(s, a) \/ BuildCounted(s, a)
        \/ \E s \in Sender : Receipt(s)
        \/ \E k \in pool : Mine(k)
        \/ \E k \in pool : Drop(k)
    BY <1>11 DEF ClientNext, NodeNext, Sending, Waiting
  <2>2. CASE \E s \in Sender, a \in Account :
               BuildTransaction(s, a) \/ BuildCounted(s, a)
    BY <1>5, <2>2 DEF Calls!CallNext
  <2>3. CASE \E s \in Sender : Receipt(s)
    BY <1>6, <2>3 DEF Calls!CallNext, Seen
  <2>4. CASE \E k \in pool : Mine(k)
    BY <1>7, <2>4 DEF Calls!CallNext, Seen
  <2>5. CASE \E s \in Sender : \/ Start(s) \/ End(s) \/ SendRawTransaction(s)
                               \/ SendRaises(s) \/ TimesOut(s)
    BY <1>3, <1>8, <2>5
  <2>6. CASE \E k \in pool : Drop(k)
    BY <1>3, <1>9, <2>6
  <2> QED
    BY <2>1, <2>2, <2>3, <2>4, <2>5, <2>6
<1> QED
  BY <1>10, <1>11

LEMMA InitSimulation == ClientInit => Calls!CallInit
<1> SUFFICES ASSUME ClientInit PROVE Calls!CallInit
  OBVIOUS
<1>1. Call = {} /\ Seen = <<>>
  BY DEF ClientInit, Call, Seen
<1> QED
  BY <1>1 DEF ClientInit, Calls!CallInit, Seen

\* The processes and the node implement CallLog, whatever is replaced, refused,
\* dropped or given up: no call takes effect twice, the calls of an account
\* take effect in the order of their issue, and a call that returns has.
THEOREM ClientImplementsCallLog == ClientSpec => ImplementsCallLog
<1>1. ClientSpec => []ClientInv
  BY ClientInvariant
<1> QED
  BY <1>1, InitSimulation, StepSimulation, PTL
     DEF ClientSpec, ImplementsCallLog, Calls!CallSpec
=============================================================================
