--------------------------- MODULE MediatorProofs ---------------------------
(***************************************************************************)
(* Proof, for any briefings of the two parties, that the mediator keeps     *)
(* each party's secrets from the other but for what its own proposal says.  *)
(***************************************************************************)
EXTENDS Mediator, TLAPS

\* The secrets of a conversation are those of its messages: one more message
\* adds its own.
LEMMA CarriedAppend ==
  ASSUME NEW s \in Seq(Message), NEW m \in Message
  PROVE  Carried(Append(s, m)) = Carried(s) \cup m.content
<1> DEFINE a == Append(s, m)
<1>1. /\ DOMAIN a = 1 .. Len(s) + 1
      /\ DOMAIN s = 1 .. Len(s)
      /\ Len(s) \in Nat
      /\ \A i \in 1 .. Len(s) : a[i] = s[i]
      /\ a[Len(s) + 1] = m
  OBVIOUS
<1>2. ASSUME NEW x \in Carried(a)
      PROVE  x \in Carried(s) \cup m.content
  <2>1. PICK i \in DOMAIN a : x \in a[i].content
    BY DEF Carried
  <2>2. CASE i = Len(s) + 1
    BY <2>1, <2>2, <1>1
  <2>3. CASE i # Len(s) + 1
    <3>1. i \in 1 .. Len(s)
      BY <2>3, <1>1
    <3>2. i \in DOMAIN s /\ x \in s[i].content
      BY <3>1, <2>1, <1>1
    <3> QED
      BY <3>2 DEF Carried
  <2> QED
    BY <2>2, <2>3
<1>3. ASSUME NEW x \in Carried(s)
      PROVE  x \in Carried(a)
  <2>1. PICK i \in DOMAIN s : x \in s[i].content
    BY DEF Carried
  <2>2. i \in DOMAIN a /\ a[i] = s[i]
    BY <1>1
  <2> QED
    BY <2>1, <2>2 DEF Carried
<1>4. ASSUME NEW x \in m.content
      PROVE  x \in Carried(a)
  <2>1. Len(s) + 1 \in DOMAIN a /\ a[Len(s) + 1] = m
    BY <1>1
  <2> QED
    BY <2>1 DEF Carried
<1> QED
  BY <1>2, <1>3, <1>4

\* A conversation carries secrets of the two parties only.
LEMMA CarriedIsText ==
  ASSUME NEW s \in Seq(Message)
  PROVE  Carried(s) \in Text
<1>1. ASSUME NEW i \in DOMAIN s
      PROVE  s[i].content \in Text
  <2>1. s[i] \in Message
    OBVIOUS
  <2> QED
    BY <2>1 DEF Message
<1> QED
  BY <1>1 DEF Carried, Text

\* A message in either role is a message.
LEMMA MessagesOfText ==
  ASSUME NEW text \in Text
  PROVE  /\ User(text) \in Message
         /\ Assistant(text) \in Message
         /\ User(text).content = text
         /\ Assistant(text).content = text
BY DEF User, Assistant, Message

-----------------------------------------------------------------------------
(* The argument.  While main() holds the text of its last call for the party *)
(* it is about to pass it to, that text holds nothing the party may not      *)
(* know, and before the synthesis nothing has been proposed.                 *)

\* The party the text in hand came from, or goes to.
InHand(step) ==
  IF step \in {"acknowledge", "decide"} THEN {Consumer}
  ELSE IF step \in {"quote", "follow_up", "counter", "absorb", "commit"}
       THEN {Producer}
       ELSE {}

BeforeSynthesis == {"brief", "acknowledge", "request_quote", "quote",
                    "follow_up", "counter", "absorb", "synthesize"}

Bounded ==
  /\ TypeOK
  /\ LeakOnlyByProposal
  /\ \A p \in InHand(script) : last \subseteq MayKnow(p)
  /\ script \in BeforeSynthesis => deal = NoDeal

LEMMA BoundedInit == Init => Bounded
<1> SUFFICES ASSUME Init PROVE Bounded
  OBVIOUS
<1>1. TypeOK
  BY DEF Init, TypeOK, Scripts, Text, NoDeal, NoText
<1>2. LeakOnlyByProposal
  BY DEF Init, LeakOnlyByProposal, Carried
<1>3. InHand(script) = {} /\ deal = NoDeal
  BY DEF Init, InHand
<1> QED
  BY <1>1, <1>2, <1>3 DEF Bounded

\* A turn adds the question and the answer to what a conversation carries.
LEMMA Turn ==
  ASSUME NEW s \in Seq(Message), NEW text \in Text
  PROVE  /\ Append(s, User(text)) \in Seq(Message)
         /\ Carried(Append(s, User(text))) = Carried(s) \cup text
         /\ \A reply \in Text :
              LET told == Append(Append(s, User(text)), Assistant(reply))
              IN  /\ told \in Seq(Message)
                  /\ Carried(told) = Carried(s) \cup text \cup reply
<1> DEFINE asked == Append(s, User(text))
<1>1. asked \in Seq(Message) /\ Carried(asked) = Carried(s) \cup text
  BY MessagesOfText, CarriedAppend
<1>2. ASSUME NEW reply \in Text
      PROVE  /\ Append(asked, Assistant(reply)) \in Seq(Message)
             /\ Carried(Append(asked, Assistant(reply)))
                  = Carried(s) \cup text \cup reply
  <2> HIDE DEF asked
  <2>1. Append(asked, Assistant(reply)) \in Seq(Message)
    BY <1>1, MessagesOfText
  <2>2. Carried(Append(asked, Assistant(reply))) = Carried(asked) \cup reply
    BY <1>1, MessagesOfText, CarriedAppend
  <2> QED
    BY <2>1, <2>2, <1>1
<1> QED
  BY <1>1, <1>2

\* Conversations that keep to what each party may know.
Kept(conversation) ==
  /\ conversation \in [Party -> Seq(Message)]
  /\ \A p \in Party : Carried(conversation[p]) \subseteq MayKnow(p)

\* One more message or turn with a party that is told nothing it may not know
\* keeps to it: the answer is read off the briefing and the conversation.
LEMMA TurnKept ==
  ASSUME NEW c, Kept(c),
         NEW party \in Party,
         NEW incoming \in Text, incoming \subseteq MayKnow(party)
  PROVE  LET asked == Append(c[party], User(incoming))
         IN  /\ Kept([c EXCEPT ![party] = asked])
             /\ \A reply \in SUBSET (SecretsOf[party] \cup Carried(asked)) :
                  /\ reply \in Text
                  /\ reply \subseteq MayKnow(party)
                  /\ Kept([c EXCEPT
                             ![party] = Append(asked, Assistant(reply))])
<1> DEFINE asked == Append(c[party], User(incoming))
<1>1. /\ c[party] \in Seq(Message)
      /\ Carried(c[party]) \subseteq MayKnow(party)
  BY DEF Kept
<1>2. /\ asked \in Seq(Message)
      /\ Carried(asked) = Carried(c[party]) \cup incoming
  BY <1>1, Turn
<1>3. ASSUME NEW told \in Seq(Message), Carried(told) \subseteq MayKnow(party)
      PROVE  Kept([c EXCEPT ![party] = told])
  BY <1>3 DEF Kept
<1>4. Kept([c EXCEPT ![party] = asked])
  BY <1>1, <1>2, <1>3
<1>5. ASSUME NEW reply \in SUBSET (SecretsOf[party] \cup Carried(asked))
      PROVE  /\ reply \in Text
             /\ reply \subseteq MayKnow(party)
             /\ Kept([c EXCEPT ![party] = Append(asked, Assistant(reply))])
  <2>1. Carried(asked) \in Text
    BY <1>2, CarriedIsText
  <2>2. reply \in Text
    BY <2>1 DEF Text, Secret
  <2>3. reply \subseteq MayKnow(party)
    BY <1>1, <1>2 DEF MayKnow
  <2>4. /\ Append(asked, Assistant(reply)) \in Seq(Message)
        /\ Carried(Append(asked, Assistant(reply)))
             = Carried(c[party]) \cup incoming \cup reply
    BY <2>2, <1>1, Turn
  <2> QED
    BY <2>2, <2>3, <2>4, <1>1, <1>3
<1> QED
  BY <1>4, <1>5

\* What is left to show of a step that proposes nothing: the next call is for
\* the party that has just spoken or takes no text in hand, and no call goes
\* back to before the synthesis.
Follows(next, party) ==
  /\ next \in Scripts
  /\ InHand(next) \subseteq {party}
  /\ next \in BeforeSynthesis => script \in BeforeSynthesis

LEMMA StepKept ==
  ASSUME Bounded,
         NEW party \in Party,
         NEW next, Follows(next, party),
         NEW h, Kept(h), history' = h,
         NEW t, Kept(t), thread' = t,
         UNCHANGED deal,
         \/ Raised
         \/ Continue(next, last') /\ last' \in Text /\ last' \subseteq MayKnow(party)
  PROVE  Bounded'
<1>1. \A p \in Party : MayKnow(p)' = MayKnow(p)
  BY DEF MayKnow
<1>2. script' \in Scripts /\ last' \in Text
  BY DEF Raised, Continue, Follows, Scripts, Bounded, TypeOK
<1>3. TypeOK'
  BY <1>2 DEF Bounded, TypeOK, Kept
<1>4. LeakOnlyByProposal'
  <2> SUFFICES ASSUME NEW p \in Party
               PROVE  /\ Carried(history[p])' \subseteq MayKnow(p)
                      /\ Carried(thread[p])' \subseteq MayKnow(p)
    BY <1>1 DEF LeakOnlyByProposal
  <2>1. Carried(history[p])' = Carried(h[p]) /\ Carried(thread[p])' = Carried(t[p])
    BY DEF Carried
  <2> QED
    BY <2>1 DEF Kept
<1>5. /\ InHand(script)' \subseteq {party}
      /\ \A p \in InHand(script)' : last' \subseteq MayKnow(p)
  BY DEF Raised, Continue, Follows, InHand
<1>6. (script \in BeforeSynthesis => deal = NoDeal)'
  BY DEF Raised, Continue, Follows, BeforeSynthesis, Bounded, NoDeal
<1> QED
  BY <1>1, <1>3, <1>4, <1>5, <1>6 DEF Bounded

LEMMA RespondBounded ==
  ASSUME Bounded,
         NEW party \in Party,
         NEW incoming \in Text, incoming \subseteq MayKnow(party),
         NEW next, Follows(next, party),
         Respond(party, incoming, next), UNCHANGED deal
  PROVE  Bounded'
<1>1. Kept(history) /\ Kept(thread)
  BY DEF Bounded, TypeOK, LeakOnlyByProposal, Kept
<1>2. thread' = thread
  BY DEF Respond
<1> DEFINE asked == Append(history[party], User(incoming))
<1>3. CASE Raised /\ history' = [history EXCEPT ![party] = asked]
  BY <1>1, <1>2, <1>3, TurnKept, StepKept
<1>4. ASSUME NEW reply \in SUBSET (SecretsOf[party] \cup Carried(asked)),
             history' = [history EXCEPT
                           ![party] = Append(asked, Assistant(reply))],
             Continue(next, reply)
      PROVE  Bounded'
  <2>1. /\ Kept([history EXCEPT ![party] = Append(asked, Assistant(reply))])
        /\ reply \in Text
        /\ reply \subseteq MayKnow(party)
    BY <1>1, TurnKept
  <2>2. last' = reply /\ Continue(next, last')
    BY <1>4 DEF Continue
  <2> QED
    BY <1>1, <1>2, <1>4, <2>1, <2>2, StepKept
<1> QED
  BY <1>3, <1>4 DEF Respond

LEMMA TalkToBounded ==
  ASSUME Bounded,
         NEW party \in Party,
         NEW message \in Text, message \subseteq MayKnow(party),
         NEW next, Follows(next, party),
         TalkTo(party, message, next), UNCHANGED deal
  PROVE  Bounded'
<1>1. Kept(history) /\ Kept(thread)
  BY DEF Bounded, TypeOK, LeakOnlyByProposal, Kept
<1>2. history' = history
  BY DEF TalkTo
<1> DEFINE asked == Append(thread[party], User(message))
<1>3. CASE Raised /\ thread' = [thread EXCEPT ![party] = asked]
  BY <1>1, <1>2, <1>3, TurnKept, StepKept
<1>4. ASSUME NEW reply \in SUBSET Carried(asked),
             thread' = [thread EXCEPT
                          ![party] = Append(asked, Assistant(reply))],
             Continue(next, reply)
      PROVE  Bounded'
  <2>1. /\ Kept([thread EXCEPT ![party] = Append(asked, Assistant(reply))])
        /\ reply \in Text
        /\ reply \subseteq MayKnow(party)
    BY <1>1, TurnKept
  <2>2. last' = reply /\ Continue(next, last')
    BY <1>4 DEF Continue
  <2> QED
    BY <1>1, <1>2, <1>4, <2>1, <2>2, StepKept
<1> QED
  BY <1>3, <1>4 DEF TalkTo

\* The synthesis is the one step that changes what a party may know, and it
\* only adds to it, as nothing was proposed before.
LEMMA SynthesizeBounded == Bounded /\ SynthesizeDeal => Bounded'
<1> SUFFICES ASSUME Bounded, SynthesizeDeal
             PROVE  Bounded'
  OBVIOUS
<1>1. /\ script = "synthesize" /\ deal = NoDeal
      /\ history' = history /\ thread' = thread /\ last' = last
  BY DEF SynthesizeDeal, Bounded, BeforeSynthesis
<1>2. \A p \in Party : Carried(thread[p]) \in Text
  BY CarriedIsText DEF Bounded, TypeOK
<1>3. deal' \in [Party -> Text]
  <2>1. Consumer \in Party /\ Producer \in Party
    BY DEF Party
  <2> QED
    BY <1>2, <2>1 DEF SynthesizeDeal, Bounded, TypeOK, Text
<1>4. script' \in {"propose", "no_deal", "raised"}
  BY DEF SynthesizeDeal
<1>5. TypeOK'
  BY <1>1, <1>3, <1>4 DEF Bounded, TypeOK, Scripts
<1>6. LeakOnlyByProposal'
  <2> SUFFICES ASSUME NEW p \in Party
               PROVE  /\ Carried(history[p])' \subseteq MayKnow(p)'
                      /\ Carried(thread[p])' \subseteq MayKnow(p)'
    BY DEF LeakOnlyByProposal
  <2>1. /\ Carried(history[p])' = Carried(history[p])
        /\ Carried(thread[p])' = Carried(thread[p])
    BY <1>1 DEF Carried
  <2>2. MayKnow(p) \subseteq MayKnow(p)'
    BY <1>1 DEF MayKnow, NoDeal, NoText
  <2> QED
    BY <2>1, <2>2 DEF Bounded, LeakOnlyByProposal
<1>7. InHand(script)' = {} /\ script' \notin BeforeSynthesis
  BY <1>4 DEF InHand, BeforeSynthesis
<1> QED
  BY <1>5, <1>6, <1>7 DEF Bounded, BeforeSynthesis

LEMMA BoundedNext == Bounded /\ [Next]_vars => Bounded'
<1> SUFFICES ASSUME Bounded, [Next]_vars
             PROVE  Bounded'
  OBVIOUS
<1>1. /\ Consumer \in Party /\ Producer \in Party
      /\ NoText \in Text /\ \A p \in Party : NoText \subseteq MayKnow(p)
  BY DEF Party, NoText, Text
<1>2. /\ last \in Text
      /\ \A p \in InHand(script) : last \subseteq MayKnow(p)
      /\ \A p \in Party : deal[p] \in Text /\ deal[p] \subseteq MayKnow(p)
  BY DEF Bounded, TypeOK, MayKnow
<1>3. CASE ConsumerBriefs
  <2>1. Follows("acknowledge", Consumer)
    BY <1>3 DEF ConsumerBriefs, Follows, Scripts, InHand, BeforeSynthesis
  <2> QED
    BY <1>1, <1>3, <2>1, RespondBounded DEF ConsumerBriefs
<1>4. CASE BrokerAcknowledges
  <2>1. Follows("request_quote", Consumer) /\ last \subseteq MayKnow(Consumer)
    BY <1>2, <1>4
       DEF BrokerAcknowledges, Follows, Scripts, InHand, BeforeSynthesis
  <2> QED
    BY <1>1, <1>2, <1>4, <2>1, TalkToBounded DEF BrokerAcknowledges
<1>5. CASE BrokerRequestsQuote
  <2>1. Follows("quote", Producer)
    BY <1>5 DEF BrokerRequestsQuote, Follows, Scripts, InHand, BeforeSynthesis
  <2> QED
    BY <1>1, <1>5, <2>1, TalkToBounded DEF BrokerRequestsQuote
<1>6. CASE ProducerQuotes
  <2>1. Follows("follow_up", Producer) /\ last \subseteq MayKnow(Producer)
    BY <1>2, <1>6 DEF ProducerQuotes, Follows, Scripts, InHand, BeforeSynthesis
  <2> QED
    BY <1>1, <1>2, <1>6, <2>1, RespondBounded DEF ProducerQuotes
<1>7. CASE BrokerFollowsUp
  <2>1. Follows("counter", Producer) /\ last \subseteq MayKnow(Producer)
    BY <1>2, <1>7 DEF BrokerFollowsUp, Follows, Scripts, InHand, BeforeSynthesis
  <2> QED
    BY <1>1, <1>2, <1>7, <2>1, TalkToBounded DEF BrokerFollowsUp
<1>8. CASE ProducerCounters
  <2>1. Follows("absorb", Producer) /\ last \subseteq MayKnow(Producer)
    BY <1>2, <1>8 DEF ProducerCounters, Follows, Scripts, InHand, BeforeSynthesis
  <2> QED
    BY <1>1, <1>2, <1>8, <2>1, RespondBounded DEF ProducerCounters
<1>9. CASE BrokerAbsorbs
  <2>1. Follows("synthesize", Producer) /\ last \subseteq MayKnow(Producer)
    BY <1>2, <1>9 DEF BrokerAbsorbs, Follows, Scripts, InHand, BeforeSynthesis
  <2> QED
    BY <1>1, <1>2, <1>9, <2>1, TalkToBounded DEF BrokerAbsorbs
<1>10. CASE SynthesizeDeal
  BY <1>10, SynthesizeBounded
<1>11. CASE BrokerProposes
  <2>1. Follows("decide", Consumer)
    BY <1>11 DEF BrokerProposes, Follows, Scripts, InHand, BeforeSynthesis
  <2> QED
    BY <1>1, <1>2, <1>11, <2>1, TalkToBounded DEF BrokerProposes
<1>12. CASE ConsumerDecides
  <2>1. Follows("confirm", Consumer) /\ last \subseteq MayKnow(Consumer)
    BY <1>2, <1>12 DEF ConsumerDecides, Follows, Scripts, InHand, BeforeSynthesis
  <2> QED
    BY <1>1, <1>2, <1>12, <2>1, RespondBounded DEF ConsumerDecides
<1>13. CASE BrokerConfirms
  <2>1. Follows("commit", Producer)
    BY <1>13 DEF BrokerConfirms, Follows, Scripts, InHand, BeforeSynthesis
  <2> QED
    BY <1>1, <1>2, <1>13, <2>1, TalkToBounded DEF BrokerConfirms
<1>14. CASE ProducerCommits
  <2>1. Follows("done", Producer) /\ last \subseteq MayKnow(Producer)
    BY <1>2, <1>14 DEF ProducerCommits, Follows, Scripts, InHand, BeforeSynthesis
  <2> QED
    BY <1>1, <1>2, <1>14, <2>1, RespondBounded DEF ProducerCommits
<1>15. CASE UNCHANGED vars
  BY <1>15 DEF vars, Bounded, TypeOK, LeakOnlyByProposal, MayKnow, Carried,
               InHand, BeforeSynthesis, NoDeal, Scripts
<1> QED
  BY <1>3, <1>4, <1>5, <1>6, <1>7, <1>8, <1>9, <1>10, <1>11, <1>12, <1>13,
     <1>14, <1>15 DEF Next

\* Every variable keeps its type, whatever the briefings hold.
THEOREM MediatorTypeCorrect == Spec => []TypeOK
<1>1. Bounded => TypeOK
  BY DEF Bounded
<1> QED
  BY BoundedInit, BoundedNext, <1>1, PTL DEF Spec

\* The boundary the mediator promises (base.py:9, 106-113): no call but the
\* synthesis' own proposal carries a secret of one party to the other.
THEOREM SecretsKeptApart == Spec => []LeakOnlyByProposal
<1>1. Bounded => LeakOnlyByProposal
  BY DEF Bounded
<1> QED
  BY BoundedInit, BoundedNext, <1>1, PTL DEF Spec

-----------------------------------------------------------------------------
(* Questions and answers *)

\* A conversation that waits for a question.
Answered(messages) == Turns(messages) /\ ~Dangling(messages)

LEMMA TurnTaken ==
  ASSUME NEW s \in Seq(Message), Answered(s), NEW text \in Text
  PROVE  LET asked == Append(s, User(text))
         IN  /\ Turns(asked)
             /\ \A reply \in Text : Answered(Append(asked, Assistant(reply)))
<1> DEFINE asked == Append(s, User(text))
<1>1. /\ Len(s) \in Nat /\ Len(s) % 2 = 0 /\ DOMAIN s = 1 .. Len(s)
      /\ \A i \in 1 .. Len(s) : s[i].role = IF i % 2 = 1 THEN "user" ELSE "assistant"
  BY DEF Answered, Turns, Dangling
<1>2. /\ asked \in Seq(Message) /\ Len(asked) = Len(s) + 1
      /\ DOMAIN asked = 1 .. Len(s) + 1
      /\ \A i \in 1 .. Len(s) : asked[i] = s[i]
      /\ asked[Len(s) + 1] = User(text)
  BY MessagesOfText
<1>3. (Len(s) + 1) % 2 = 1 /\ (Len(s) + 2) % 2 = 0
  BY <1>1
<1>4. \A i \in 1 .. Len(s) + 1 :
        asked[i].role = IF i % 2 = 1 THEN "user" ELSE "assistant"
  BY <1>1, <1>2, <1>3 DEF User
<1> HIDE DEF asked
<1>5. Turns(asked)
  BY <1>2, <1>4 DEF Turns
<1>6. ASSUME NEW reply \in Text
      PROVE  Answered(Append(asked, Assistant(reply)))
  <2> DEFINE told == Append(asked, Assistant(reply))
  <2>1. /\ Len(told) = Len(s) + 2
        /\ DOMAIN told = 1 .. Len(s) + 2
        /\ \A i \in 1 .. Len(s) + 1 : told[i] = asked[i]
        /\ told[Len(s) + 2] = Assistant(reply)
    BY <1>1, <1>2, MessagesOfText
  <2> HIDE DEF told
  <2>2. \A i \in 1 .. Len(s) + 2 :
          told[i].role = IF i % 2 = 1 THEN "user" ELSE "assistant"
    BY <1>1, <1>3, <1>4, <2>1 DEF Assistant
  <2>3. Turns(told) /\ ~Dangling(told)
    BY <1>3, <2>1, <2>2 DEF Turns, Dangling
  <2> QED
    BY <2>3 DEF Answered, told
<1> QED
  BY <1>5, <1>6 DEF asked

\* The four conversations are answered, but for the one of the call that raised.
AllAnswered ==
  /\ \A p \in Party : Turns(history[p]) /\ Turns(thread[p])
  /\ \A p, q \in Party :
       /\ Dangling(history[p]) /\ Dangling(history[q]) => p = q
       /\ Dangling(thread[p]) /\ Dangling(thread[q]) => p = q
       /\ ~(Dangling(history[p]) /\ Dangling(thread[q]))
  /\ script # "raised" =>
       \A p \in Party : ~Dangling(history[p]) /\ ~Dangling(thread[p])

LEMMA AllAnsweredSuffices == AllAnswered => QuestionsAnswered
<1> SUFFICES ASSUME AllAnswered PROVE QuestionsAnswered
  OBVIOUS
<1> DEFINE conversation == [history |-> history, thread |-> thread]
           Conversation == {"history", "thread"} \X Party
           Of(c) == conversation[c[1]][c[2]]
<1>1. ASSUME NEW c \in Conversation
      PROVE  \E p \in Party : \/ c = <<"history", p>> /\ Of(c) = history[p]
                              \/ c = <<"thread", p>> /\ Of(c) = thread[p]
  OBVIOUS
<1> HIDE DEF Conversation, Of
<1>2. \A c \in Conversation : Turns(Of(c))
  BY <1>1 DEF AllAnswered
<1>3. script # "raised" => \A c \in Conversation : ~Dangling(Of(c))
  BY <1>1 DEF AllAnswered
<1>4. \A c, d \in Conversation : Dangling(Of(c)) /\ Dangling(Of(d)) => c = d
  BY <1>1 DEF AllAnswered
<1> QED
  BY <1>2, <1>3, <1>4 DEF QuestionsAnswered, Conversation, Of

LEMMA AnsweredBefore ==
  ASSUME AllAnswered, script # "raised", NEW p \in Party
  PROVE  Answered(history[p]) /\ Answered(thread[p])
BY DEF AllAnswered, Answered

LEMMA RespondAnswered ==
  ASSUME TypeOK, AllAnswered, script # "raised",
         NEW party \in Party, NEW incoming \in Text,
         NEW next, next # "raised", Respond(party, incoming, next)
  PROVE  AllAnswered'
<1> DEFINE asked == Append(history[party], User(incoming))
<1>1. /\ thread' = thread /\ history \in [Party -> Seq(Message)]
      /\ \A p \in Party : Answered(history[p]) /\ Answered(thread[p])
  BY AnsweredBefore DEF Respond, TypeOK
<1>2. asked \in Seq(Message) /\ Turns(asked)
  BY <1>1, MessagesOfText, TurnTaken
<1>3. CASE Raised /\ history' = [history EXCEPT ![party] = asked]
  <2> HIDE DEF asked
  <2>1. \A p \in Party : history'[p] = IF p = party THEN asked ELSE history[p]
    BY <1>1, <1>3
  <2> QED
    BY <1>1, <1>2, <1>3, <2>1 DEF AllAnswered, Answered, Raised
<1>4. ASSUME NEW reply \in SUBSET (SecretsOf[party] \cup Carried(asked)),
             history' = [history EXCEPT
                           ![party] = Append(asked, Assistant(reply))]
      PROVE  AllAnswered'
  <2>1. reply \in Text
    <3>1. Carried(asked) \in Text
      BY <1>2, CarriedIsText
    <3> QED
      BY <3>1 DEF Text, Secret
  <2>2. Answered(Append(asked, Assistant(reply)))
    BY <1>1, <2>1, TurnTaken
  <2> DEFINE told == Append(asked, Assistant(reply))
  <2> HIDE DEF told
  <2>3. \A p \in Party : history'[p] = IF p = party THEN told ELSE history[p]
    BY <1>1, <1>4 DEF told
  <2>4. \A p \in Party : Answered(history'[p]) /\ Answered(thread'[p])
    BY <1>1, <2>2, <2>3 DEF told
  <2> QED
    BY <2>4 DEF AllAnswered, Answered
<1> QED
  BY <1>3, <1>4 DEF Respond

LEMMA TalkToAnswered ==
  ASSUME TypeOK, AllAnswered, script # "raised",
         NEW party \in Party, NEW message \in Text,
         NEW next, next # "raised", TalkTo(party, message, next)
  PROVE  AllAnswered'
<1> DEFINE asked == Append(thread[party], User(message))
<1>1. /\ history' = history /\ thread \in [Party -> Seq(Message)]
      /\ \A p \in Party : Answered(history[p]) /\ Answered(thread[p])
  BY AnsweredBefore DEF TalkTo, TypeOK
<1>2. asked \in Seq(Message) /\ Turns(asked)
  BY <1>1, MessagesOfText, TurnTaken
<1>3. CASE Raised /\ thread' = [thread EXCEPT ![party] = asked]
  <2> HIDE DEF asked
  <2>1. \A p \in Party : thread'[p] = IF p = party THEN asked ELSE thread[p]
    BY <1>1, <1>3
  <2> QED
    BY <1>1, <1>2, <1>3, <2>1 DEF AllAnswered, Answered, Raised
<1>4. ASSUME NEW reply \in SUBSET Carried(asked),
             thread' = [thread EXCEPT
                          ![party] = Append(asked, Assistant(reply))]
      PROVE  AllAnswered'
  <2>1. reply \in Text
    <3>1. Carried(asked) \in Text
      BY <1>2, CarriedIsText
    <3> QED
      BY <3>1 DEF Text
  <2>2. Answered(Append(asked, Assistant(reply)))
    BY <1>1, <2>1, TurnTaken
  <2> DEFINE told == Append(asked, Assistant(reply))
  <2> HIDE DEF told
  <2>3. \A p \in Party : thread'[p] = IF p = party THEN told ELSE thread[p]
    BY <1>1, <1>4 DEF told
  <2>4. \A p \in Party : Answered(history'[p]) /\ Answered(thread'[p])
    BY <1>1, <2>2, <2>3 DEF told
  <2> QED
    BY <2>4 DEF AllAnswered, Answered
<1> QED
  BY <1>3, <1>4 DEF TalkTo

LEMMA AnsweredNext == TypeOK /\ AllAnswered /\ [Next]_vars => AllAnswered'
<1> SUFFICES ASSUME TypeOK, AllAnswered, [Next]_vars PROVE AllAnswered'
  OBVIOUS
<1>1. /\ Consumer \in Party /\ Producer \in Party
      /\ NoText \in Text /\ last \in Text /\ \A p \in Party : deal[p] \in Text
  BY DEF Party, NoText, Text, TypeOK
<1>2. ASSUME ConsumerBriefs \/ ProducerQuotes \/ ProducerCounters
             \/ ConsumerDecides \/ ProducerCommits
      PROVE  AllAnswered'
  BY <1>1, <1>2, RespondAnswered
     DEF ConsumerBriefs, ProducerQuotes, ProducerCounters, ConsumerDecides,
         ProducerCommits
<1>3. ASSUME BrokerAcknowledges \/ BrokerRequestsQuote \/ BrokerFollowsUp
             \/ BrokerAbsorbs \/ BrokerProposes \/ BrokerConfirms
      PROVE  AllAnswered'
  BY <1>1, <1>3, TalkToAnswered
     DEF BrokerAcknowledges, BrokerRequestsQuote, BrokerFollowsUp,
         BrokerAbsorbs, BrokerProposes, BrokerConfirms
<1>4. ASSUME SynthesizeDeal \/ UNCHANGED vars
      PROVE  AllAnswered'
  BY <1>4 DEF SynthesizeDeal, vars, AllAnswered
<1> QED
  BY <1>2, <1>3, <1>4 DEF Next

LEMMA AnsweredInit == Init => AllAnswered
BY DEF Init, AllAnswered, Turns, Dangling

\* A question is left unanswered only by the call that raised, the last one.
THEOREM QuestionsAlwaysAnswered == Spec => []QuestionsAnswered
<1>1. Spec => []TypeOK
  BY MediatorTypeCorrect
<1>2. Spec => []AllAnswered
  BY <1>1, AnsweredInit, AnsweredNext, PTL DEF Spec
<1> QED
  BY <1>2, AllAnsweredSuffices, PTL

-----------------------------------------------------------------------------
(* What the synthesis is told *)

LEMMA SaidTurn ==
  ASSUME NEW s \in Seq(Message), NEW text \in Text
  PROVE  LET asked == Append(s, User(text))
         IN  /\ Said(asked) = Said(s)
             /\ \A reply \in Text :
                  Said(Append(asked, Assistant(reply))) = Said(s) \cup reply
<1>1. ASSUME NEW q \in Seq(Message), NEW m \in Message
      PROVE  Said(Append(q, m)) =
               Said(q) \cup (IF m.role = "assistant" THEN m.content ELSE {})
  <2> DEFINE a == Append(q, m)
             By(c) == {j \in DOMAIN c : c[j].role = "assistant"}
  <2>1. /\ Len(q) \in Nat /\ DOMAIN q = 1 .. Len(q)
        /\ DOMAIN a = 1 .. Len(q) + 1
        /\ \A i \in 1 .. Len(q) : a[i] = q[i]
        /\ a[Len(q) + 1] = m
    OBVIOUS
  <2> HIDE DEF a
  <2>2. By(q) \subseteq By(a) /\ By(a) \subseteq By(q) \cup {Len(q) + 1}
    BY <2>1
  <2>3. Len(q) + 1 \in By(a) <=> m.role = "assistant"
    BY <2>1
  <2>4. \A i \in By(q) : a[i].content = q[i].content
    BY <2>1
  <2> HIDE DEF By
  <2> DEFINE added == IF m.role = "assistant" THEN m.content ELSE {}
             Of(c) == UNION {c[i].content : i \in By(c)}
  <2>5. ASSUME NEW x \in Of(a)
        PROVE  x \in Of(q) \cup added
    <3>1. PICK i \in By(a) : x \in a[i].content
      OBVIOUS
    <3>2. CASE i = Len(q) + 1
      BY <2>1, <2>3, <3>1, <3>2
    <3>3. CASE i \in By(q)
      BY <2>4, <3>1, <3>3
    <3> QED
      BY <2>2, <3>2, <3>3
  <2>6. ASSUME NEW x \in Of(q)
        PROVE  x \in Of(a)
    <3>1. PICK i \in By(q) : x \in q[i].content
      OBVIOUS
    <3> QED
      BY <2>2, <2>4, <3>1
  <2>7. added \subseteq Of(a)
    BY <2>1, <2>3
  <2>8. Of(a) = Of(q) \cup added
    BY <2>5, <2>6, <2>7
  <2> QED
    BY <2>8 DEF Said, By, a
<1> DEFINE asked == Append(s, User(text))
<1>2. asked \in Seq(Message) /\ Said(asked) = Said(s)
  <2>1. User(text) \in Message /\ User(text).role # "assistant"
    BY MessagesOfText DEF User
  <2>2. Said(asked) = Said(s) \cup {}
    BY <1>1, <2>1, Zenon
  <2>3. asked \in Seq(Message)
    BY <2>1
  <2> HIDE DEF asked
  <2> QED
    BY <2>2, <2>3
<1>3. ASSUME NEW reply \in Text
      PROVE  Said(Append(asked, Assistant(reply))) = Said(s) \cup reply
  <2>1. /\ Assistant(reply) \in Message /\ Assistant(reply).content = reply
        /\ Assistant(reply).role = "assistant"
    BY MessagesOfText DEF Assistant
  <2> HIDE DEF asked
  <2> QED
    BY <1>1, <1>2, <2>1
<1> QED
  BY <1>2, <1>3

\* The party whose last answer the broker has not been given yet.
Unheard(step) ==
  IF step = "acknowledge" THEN {Consumer}
  ELSE IF step \in {"follow_up", "absorb"} THEN {Producer} ELSE {}

\* Up to the synthesis a thread holds what its party has said but for an answer
\* that main() is still to pass on.
Informed ==
  script \in BeforeSynthesis =>
    \A p \in Party :
      Said(history[p]) \subseteq
        Carried(thread[p]) \cup (IF p \in Unheard(script) THEN last ELSE {})

LEMMA RespondInformed ==
  ASSUME TypeOK, Informed, script \in BeforeSynthesis, Unheard(script) = {},
         NEW party \in Party, NEW incoming \in Text,
         NEW next, Unheard(next) = {party}, Respond(party, incoming, next)
  PROVE  Informed'
<1> DEFINE asked == Append(history[party], User(incoming))
<1>1. /\ thread' = thread /\ history \in [Party -> Seq(Message)]
      /\ \A p \in Party : Said(history[p]) \subseteq Carried(thread[p])
  BY DEF Respond, TypeOK, Informed
<1>2. asked \in Seq(Message)
  BY <1>1, MessagesOfText
<1>3. CASE Raised
  BY <1>3 DEF Raised, Informed, BeforeSynthesis
<1>4. ASSUME NEW reply \in SUBSET (SecretsOf[party] \cup Carried(asked)),
             history' = [history EXCEPT
                           ![party] = Append(asked, Assistant(reply))],
             Continue(next, reply)
      PROVE  Informed'
  <2>1. reply \in Text
    <3>1. Carried(asked) \in Text
      BY <1>2, CarriedIsText
    <3> QED
      BY <3>1 DEF Text, Secret
  <2>2. Said(Append(asked, Assistant(reply))) = Said(history[party]) \cup reply
    BY <1>1, <2>1, SaidTurn
  <2> DEFINE told == Append(asked, Assistant(reply))
  <2> HIDE DEF told
  <2>3. \A p \in Party : history'[p] = IF p = party THEN told ELSE history[p]
    BY <1>1, <1>4 DEF told
  <2>4. Unheard(script)' = {party} /\ last' = reply
    BY <1>4 DEF Continue, Unheard
  <2>5. ASSUME NEW p \in Party
        PROVE  Said(history'[p]) \subseteq
                 Carried(thread[p]) \cup (IF p = party THEN reply ELSE {})
    <3>1. CASE p = party
      BY <1>1, <2>2, <2>3, <3>1 DEF told
    <3>2. CASE p # party
      BY <1>1, <2>3, <3>2
    <3> QED
      BY <3>1, <3>2
  <2> QED
    BY <1>1, <2>4, <2>5 DEF Informed
<1> QED
  BY <1>3, <1>4 DEF Respond

LEMMA TalkToInformed ==
  ASSUME TypeOK, Informed, script \in BeforeSynthesis,
         NEW party \in Party, NEW message \in Text,
         Unheard(script) \subseteq {party},
         party \in Unheard(script) => message = last,
         NEW next, Unheard(next) = {}, TalkTo(party, message, next)
  PROVE  Informed'
<1> DEFINE asked == Append(thread[party], User(message))
<1>1. /\ history' = history /\ thread \in [Party -> Seq(Message)]
      /\ \A p \in Party :
           Said(history[p]) \subseteq
             Carried(thread[p]) \cup (IF p = party THEN message ELSE {})
  BY DEF TalkTo, TypeOK, Informed
<1>2. asked \in Seq(Message)
  BY <1>1, MessagesOfText
<1>3. CASE Raised
  BY <1>3 DEF Raised, Informed, BeforeSynthesis
<1>4. ASSUME NEW reply \in SUBSET Carried(asked),
             thread' = [thread EXCEPT
                          ![party] = Append(asked, Assistant(reply))],
             Continue(next, reply)
      PROVE  Informed'
  <2>1. reply \in Text
    <3>1. Carried(asked) \in Text
      BY <1>2, CarriedIsText
    <3> QED
      BY <3>1 DEF Text
  <2>2. Carried(Append(asked, Assistant(reply)))
          = Carried(thread[party]) \cup message \cup reply
    BY <1>1, <2>1, Turn
  <2> DEFINE told == Append(asked, Assistant(reply))
  <2> HIDE DEF told
  <2>3. \A p \in Party : thread'[p] = IF p = party THEN told ELSE thread[p]
    BY <1>1, <1>4 DEF told
  <2>4. Unheard(script)' = {}
    BY <1>4 DEF Continue, Unheard
  <2>5. ASSUME NEW p \in Party
        PROVE  Said(history[p]) \subseteq Carried(thread'[p])
    <3>1. CASE p = party
      BY <1>1, <2>2, <2>3, <3>1 DEF told
    <3>2. CASE p # party
      BY <1>1, <2>3, <3>2
    <3> QED
      BY <3>1, <3>2
  <2> QED
    BY <1>1, <2>4, <2>5 DEF Informed
<1> QED
  BY <1>3, <1>4 DEF TalkTo

LEMMA InformedNext == TypeOK /\ Informed /\ [Next]_vars => Informed'
<1> SUFFICES ASSUME TypeOK, Informed, [Next]_vars PROVE Informed'
  OBVIOUS
<1>1. /\ Consumer \in Party /\ Producer \in Party /\ Consumer # Producer
      /\ NoText \in Text /\ last \in Text
  BY MediatorAssumption DEF Party, NoText, Text, TypeOK
<1>2. ASSUME ConsumerBriefs \/ ProducerQuotes \/ ProducerCounters
      PROVE  Informed'
  <2>1. CASE ConsumerBriefs
    <3>1. /\ script \in BeforeSynthesis /\ Unheard(script) = {}
          /\ Unheard("acknowledge") = {Consumer}
      BY <2>1 DEF ConsumerBriefs, Unheard, BeforeSynthesis
    <3> QED
      BY <1>1, <2>1, <3>1, RespondInformed DEF ConsumerBriefs
  <2>2. CASE ProducerQuotes
    <3>1. /\ script \in BeforeSynthesis /\ Unheard(script) = {}
          /\ Unheard("follow_up") = {Producer}
      BY <2>2 DEF ProducerQuotes, Unheard, BeforeSynthesis
    <3> QED
      BY <1>1, <2>2, <3>1, RespondInformed DEF ProducerQuotes
  <2>3. CASE ProducerCounters
    <3>1. /\ script \in BeforeSynthesis /\ Unheard(script) = {}
          /\ Unheard("absorb") = {Producer}
      BY <2>3 DEF ProducerCounters, Unheard, BeforeSynthesis
    <3> QED
      BY <1>1, <2>3, <3>1, RespondInformed DEF ProducerCounters
  <2> QED
    BY <1>2, <2>1, <2>2, <2>3
<1>3. CASE BrokerAcknowledges
  <2>1. /\ script \in BeforeSynthesis /\ Unheard(script) = {Consumer}
        /\ Unheard("request_quote") = {}
    BY <1>3 DEF BrokerAcknowledges, Unheard, BeforeSynthesis
  <2> QED
    BY <1>1, <1>3, <2>1, TalkToInformed DEF BrokerAcknowledges
<1>4. CASE BrokerRequestsQuote
  <2>1. /\ script \in BeforeSynthesis /\ Unheard(script) = {}
        /\ Unheard("quote") = {}
    BY <1>4 DEF BrokerRequestsQuote, Unheard, BeforeSynthesis
  <2> QED
    BY <1>1, <1>4, <2>1, TalkToInformed DEF BrokerRequestsQuote
<1>5. CASE BrokerFollowsUp
  <2>1. /\ script \in BeforeSynthesis /\ Unheard(script) = {Producer}
        /\ Unheard("counter") = {}
    BY <1>5 DEF BrokerFollowsUp, Unheard, BeforeSynthesis
  <2> QED
    BY <1>1, <1>5, <2>1, TalkToInformed DEF BrokerFollowsUp
<1>6. CASE BrokerAbsorbs
  <2>1. /\ script \in BeforeSynthesis /\ Unheard(script) = {Producer}
        /\ Unheard("synthesize") = {}
    BY <1>6 DEF BrokerAbsorbs, Unheard, BeforeSynthesis
  <2> QED
    BY <1>1, <1>6, <2>1, TalkToInformed DEF BrokerAbsorbs
<1>7. ASSUME SynthesizeDeal \/ BrokerProposes \/ ConsumerDecides
             \/ BrokerConfirms \/ ProducerCommits
      PROVE  Informed'
  <2>1. script' \notin BeforeSynthesis
    BY <1>7 DEF SynthesizeDeal, BrokerProposes, ConsumerDecides, BrokerConfirms,
                ProducerCommits, TalkTo, Respond, Raised, Continue, BeforeSynthesis
  <2> QED
    BY <2>1 DEF Informed
<1>8. CASE UNCHANGED vars
  BY <1>8 DEF vars, Informed
<1> QED
  BY <1>2, <1>3, <1>4, <1>5, <1>6, <1>7, <1>8 DEF Next

LEMMA InformedInit == Init => Informed
BY DEF Init, Informed, Said

\* The deal is priced on all that either party has told the broker.
THEOREM SynthesisAlwaysInformed == Spec => []SynthesisInformed
<1>1. Spec => []TypeOK
  BY MediatorTypeCorrect
<1>2. Spec => []Informed
  BY <1>1, InformedInit, InformedNext, PTL DEF Spec
<1>3. Informed => SynthesisInformed
  BY DEF Informed, SynthesisInformed, Unheard, BeforeSynthesis
<1> QED
  BY <1>2, <1>3, PTL
=============================================================================
