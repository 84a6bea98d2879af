------------------------------ MODULE Mediator ------------------------------
(***************************************************************************)
(* A negotiation between parties that keep secrets from each other: the    *)
(* script of proto_interfaces.py over PrivateAgent and the mediating       *)
(* BrokerAgent of agents/interfaces/base.py.                               *)
(*                                                                         *)
(* A text is the set of secrets that can be read off it.  What a language  *)
(* model writes may carry anything that is in its context and nothing      *)
(* else; the one place where a context holds the secrets of both sides is  *)
(* the broker's synthesis.                                                 *)
(***************************************************************************)
EXTENDS Integers, Sequences

CONSTANTS
  Consumer, Producer,  \* the two parties
  SecretsOf            \* what the private briefing of each party holds

Party == {Consumer, Producer}

Secret == UNION {SecretsOf[p] : p \in Party}

Text == SUBSET Secret

ASSUME MediatorAssumption == Consumer # Producer

VARIABLES
  script,     \* the call main() makes next, or how it ended
  history,    \* PrivateAgent._history of each party
  thread,     \* the broker's _consumer_thread and _producer_threads
  last,       \* the text main() has from its last call
  deal        \* what the result of synthesize_deal() has for each party

vars == <<script, history, thread, last, deal>>

Message == [role : {"user", "assistant"}, content : Text]

\* Wrong on purpose: the role by the name older versions of the API gave it.
HumanUser(text) == [role |-> "human", content |-> text]

User(text) == [role |-> "user", content |-> text]
Assistant(text) == [role |-> "assistant", content |-> text]

\* The secrets in a conversation.
Carried(messages) == UNION {messages[i].content : i \in DOMAIN messages}

NoText == {}

NoDeal == [p \in Party |-> NoText]

-----------------------------------------------------------------------------
(* The agents.  An API call that fails raises after the message was appended *)
(* and ends main().                                                          *)

Raised == script' = "raised" /\ UNCHANGED last

Continue(next, reply) == script' = next /\ last' = reply

\* The party answers from its briefing and its own history.
Respond(party, incoming, next) ==
  LET asked == Append(history[party], User(incoming))
  IN  /\ \/ \E reply \in SUBSET (SecretsOf[party] \cup Carried(asked)) :
              /\ history' = [history EXCEPT
                               ![party] = Append(asked, Assistant(reply))]
              /\ Continue(next, reply)
         \/ history' = [history EXCEPT ![party] = asked] /\ Raised
      /\ UNCHANGED thread

\* Wrong on purpose: the broker's own answers are not kept.
TalkToUnrecorded(party, message, next) ==
  LET asked == Append(thread[party], User(message))
  IN  /\ \/ \E reply \in SUBSET Carried(asked) : Continue(next, reply)
         \/ Raised
      /\ thread' = [thread EXCEPT ![party] = asked]
      /\ UNCHANGED history

\* The broker answers a party from the thread of that party.
TalkTo(party, message, next) ==
  LET asked == Append(thread[party], User(message))
  IN  /\ \/ \E reply \in SUBSET Carried(asked) :
              /\ thread' = [thread EXCEPT
                              ![party] = Append(asked, Assistant(reply))]
              /\ Continue(next, reply)
         \/ thread' = [thread EXCEPT ![party] = asked] /\ Raised
      /\ UNCHANGED history

-----------------------------------------------------------------------------
Init ==
  /\ script = "brief"
  /\ history = [p \in Party |-> <<>>]
  /\ thread = [p \in Party |-> <<>>]
  /\ last = NoText
  /\ deal = NoDeal

ConsumerBriefs ==
  /\ script = "brief"
  /\ Respond(Consumer, NoText, "acknowledge")
  /\ UNCHANGED deal

BrokerAcknowledges ==
  /\ script = "acknowledge"
  /\ TalkTo(Consumer, last, "request_quote")
  /\ UNCHANGED deal

\* Wrong on purpose: the client's message is forwarded as the request.
ForwardsRequest ==
  /\ script = "request_quote"
  /\ TalkTo(Producer, last, "quote")
  /\ UNCHANGED deal

\* The request for quotation is a fixed text.
BrokerRequestsQuote ==
  /\ script = "request_quote"
  /\ TalkTo(Producer, NoText, "quote")
  /\ UNCHANGED deal

ProducerQuotes ==
  /\ script = "quote"
  /\ Respond(Producer, last, "follow_up")
  /\ UNCHANGED deal

BrokerFollowsUp ==
  /\ script = "follow_up"
  /\ TalkTo(Producer, last, "counter")
  /\ UNCHANGED deal

ProducerCounters ==
  /\ script = "counter"
  /\ Respond(Producer, last, "absorb")
  /\ UNCHANGED deal

\* Wrong on purpose: the counter offer is not absorbed into the thread.
NotAbsorbed ==
  /\ script = "absorb"
  /\ script' = "synthesize"
  /\ UNCHANGED <<history, thread, last, deal>>

BrokerAbsorbs ==
  /\ script = "absorb"
  /\ TalkTo(Producer, last, "synthesize")
  /\ UNCHANGED deal

\* The broker reads both threads and writes a price and one proposal for each
\* party; to[p] is all of it that main() passes on to p.  The prompt asks to
\* leave the other side's secrets out; nothing checks that the answer does.  An
\* answer without a JSON object, or not viable, is no deal; one whose price is
\* not a number fails to format.
SynthesizeDeal ==
  /\ script = "synthesize"
  /\ \/ \E to \in [Party -> SUBSET (Carried(thread[Consumer])
                                      \cup Carried(thread[Producer]))] :
          /\ deal' = to
          /\ script' = "propose"
     \/ script' = "no_deal" /\ UNCHANGED deal
     \/ script' = "raised" /\ UNCHANGED deal
  /\ UNCHANGED <<history, thread, last>>

BrokerProposes ==
  /\ script = "propose"
  /\ TalkTo(Consumer, deal[Consumer], "decide")
  /\ UNCHANGED deal

ConsumerDecides ==
  /\ script = "decide"
  /\ Respond(Consumer, last, "confirm")
  /\ UNCHANGED deal

\* The producer is asked to proceed whatever the consumer's reply (last) says:
\* main() only prints it.
BrokerConfirms ==
  /\ script = "confirm"
  /\ TalkTo(Producer, deal[Producer], "commit")
  /\ UNCHANGED deal

ProducerCommits ==
  /\ script = "commit"
  /\ Respond(Producer, last, "done")
  /\ UNCHANGED deal

Next ==
  \/ ConsumerBriefs \/ BrokerAcknowledges
  \/ BrokerRequestsQuote \/ ProducerQuotes \/ BrokerFollowsUp
  \/ ProducerCounters \/ BrokerAbsorbs
  \/ SynthesizeDeal
  \/ BrokerProposes \/ ConsumerDecides
  \/ BrokerConfirms \/ ProducerCommits

Spec == Init /\ [][Next]_vars

-----------------------------------------------------------------------------
(* Properties. *)

Scripts == {"brief", "acknowledge", "request_quote", "quote", "follow_up",
            "counter", "absorb", "synthesize", "propose", "decide", "confirm",
            "commit", "done", "no_deal", "raised"}

\* The type of every variable.
TypeOK ==
  /\ script \in Scripts
  /\ history \in [Party -> Seq(Message)]
  /\ thread \in [Party -> Seq(Message)]
  /\ last \in Text
  /\ deal \in [Party -> Text]

\* What a party may know: its own briefing and what the deal has for it.
MayKnow(party) == SecretsOf[party] \cup deal[party]

\* "consumer private info never appears in a producer thread and vice versa"
\* (base.py:9): a party's secret reaches the other party's history, or the
\* broker's thread with it, by the proposal that synthesize_deal() wrote for
\* that party and by no other call.
LeakOnlyByProposal ==
  \A p \in Party :
    /\ Carried(history[p]) \subseteq MayKnow(p)
    /\ Carried(thread[p]) \subseteq MayKnow(p)

\* What the assistant of a conversation has said in it.
Said(messages) ==
  UNION {messages[i].content :
           i \in {j \in DOMAIN messages : messages[j].role = "assistant"}}

\* The broker prices the deal on what the parties told it: at the synthesis the
\* thread of each party holds all that party has said so far, the last counter
\* offer of the producer included (proto_interfaces.py:219 absorbs it).
SynthesisInformed ==
  script = "synthesize" =>
    \A p \in Party : Said(history[p]) \subseteq Carried(thread[p])

Turns(messages) ==
  \A i \in DOMAIN messages :
    messages[i].role = IF i % 2 = 1 THEN "user" ELSE "assistant"

Dangling(messages) == Len(messages) % 2 = 1

\* The four conversations take turns, as the messages API asks of its input: a
\* question is left without its answer only by the call that raised, which is
\* the last one, so that one conversation at most has one.
QuestionsAnswered ==
  LET conversation == [history |-> history, thread |-> thread]
      Conversation == {"history", "thread"} \X Party
      Of(c) == conversation[c[1]][c[2]]
  IN  /\ \A c \in Conversation : Turns(Of(c))
      /\ \A c, d \in Conversation :
           Dangling(Of(c)) /\ Dangling(Of(d)) => c = d
      /\ script # "raised" => \A c \in Conversation : ~Dangling(Of(c))
=============================================================================
