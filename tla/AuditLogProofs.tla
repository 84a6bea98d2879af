--------------------------- MODULE AuditLogProofs ---------------------------
(* What the audit log guarantees for every set of writers, requirements and  *)
(* event identifiers and every length of the log.                            *)
EXTENDS AuditLog, SequenceTheorems, TLAPS

\* The inductive invariant: the index is exact because what it holds are
\* positions of the array, and those are only ever added at its end.
LogInv == LogTypeOK /\ IndexExact

-----------------------------------------------------------------------------

\* Appending e to s keeps every element of s in place and puts e last.
LEMMA AppendElements ==
  ASSUME NEW S, NEW s \in Seq(S), NEW e \in S
  PROVE  /\ Append(s, e) \in Seq(S)
         /\ Len(Append(s, e)) = Len(s) + 1
         /\ DOMAIN s = 1 .. Len(s)
         /\ DOMAIN Append(s, e) = 1 .. Len(s) + 1
         /\ \A k \in 1 .. Len(s) : Append(s, e)[k] = s[k]
         /\ Append(s, e)[Len(s) + 1] = e
  OBVIOUS

\* A log with nothing in it is well-formed, whoever deploys it.
LEMMA InitLogInv == Init => LogInv
<1> SUFFICES ASSUME NEW deployer \in Writer, LogInit(deployer)
             PROVE  LogInv
  BY DEF Init
<1>1. LogTypeOK
  BY DEF LogInit, LogTypeOK
<1>2. IndexExact
  BY DEF LogInit, IndexExact
<1> QED
  BY <1>1, <1>2 DEF LogInv

\* logEvent() keeps the types: the position it stores is that of the event.
LEMMA LogEventType ==
  ASSUME LogTypeOK,
         NEW sender \in Writer, NEW e \in EventId, NEW r \in RequirementId,
         NEW s \in Stage, NEW a \in Writer,
         LogEvent(sender, e, r, s, a)
  PROVE  LogTypeOK'
<1> DEFINE rec == Record(e, r, s, a)
<1>1. rec \in AuditEvent
  BY DEF Record, AuditEvent
<1>2. events' \in Seq(AuditEvent) /\ Len(events') = Len(events) + 1
  BY <1>1, AppendElements DEF LogEvent, LogTypeOK
<1>3. Len(events) \in Nat
  BY DEF LogTypeOK
<1>4. byRequirement' \in [RequirementId -> Seq(1 .. Len(events'))]
  <2>1. ASSUME NEW q \in Seq(1 .. Len(events))
        PROVE  /\ q \in Seq(1 .. Len(events) + 1)
               /\ Append(q, Len(events) + 1) \in Seq(1 .. Len(events) + 1)
    BY <1>3
  <2> QED
    BY <1>2, <2>1 DEF LogEvent, LogTypeOK
<1> QED
  BY <1>2, <1>4 DEF LogEvent, LogTypeOK

\* logEvent() keeps the index exact: the new position is larger than every
\* stored one and belongs to the requirement of the new event alone.
LEMMA LogEventIndex ==
  ASSUME LogInv,
         NEW sender \in Writer, NEW e \in EventId, NEW r \in RequirementId,
         NEW s \in Stage, NEW a \in Writer,
         LogEvent(sender, e, r, s, a)
  PROVE  IndexExact'
<1> DEFINE rec == Record(e, r, s, a)
           n == Len(events)
<1>1. rec \in AuditEvent /\ rec.requirementId = r
  BY DEF Record, AuditEvent
<1>2. n \in Nat /\ events \in Seq(AuditEvent)
  BY DEF LogInv, LogTypeOK
<1>3. /\ DOMAIN events = 1 .. n
      /\ DOMAIN events' = 1 .. n + 1
      /\ \A k \in 1 .. n : events'[k] = events[k]
      /\ events'[n + 1] = rec
  BY <1>1, <1>2, AppendElements DEF LogEvent
<1> SUFFICES ASSUME NEW q \in RequirementId
             PROVE  LET idx == byRequirement'[q] IN
               /\ \A i, j \in DOMAIN idx : i < j => idx[i] < idx[j]
               /\ \A k \in DOMAIN events' :
                    events'[k].requirementId = q
                      <=> \E i \in DOMAIN idx : idx[i] = k
  BY DEF IndexExact
<1> DEFINE old == byRequirement[q]
<1>4. /\ old \in Seq(1 .. n)
      /\ DOMAIN old = 1 .. Len(old) /\ Len(old) \in Nat
      /\ \A i \in 1 .. Len(old) : old[i] \in 1 .. n
  BY DEF LogInv, LogTypeOK
<1>5. /\ \A i, j \in 1 .. Len(old) : i < j => old[i] < old[j]
      /\ \A k \in 1 .. n : events[k].requirementId = q
                             <=> \E i \in 1 .. Len(old) : old[i] = k
  <2>1. /\ \A i, j \in DOMAIN old : i < j => old[i] < old[j]
        /\ \A k \in DOMAIN events :
             events[k].requirementId = q <=> \E i \in DOMAIN old : old[i] = k
    BY DEF LogInv, IndexExact
  <2> HIDE DEF old, n
  <2> QED
    BY <1>3, <1>4, <2>1
<1>6. CASE q # r
  <2>1. byRequirement'[q] = old
    BY <1>6 DEF LogEvent, LogInv, LogTypeOK
  <2> HIDE DEF old, n, rec
  <2>2. \A i, j \in DOMAIN old : i < j => old[i] < old[j]
    BY <1>4, <1>5
  <2>3. \A k \in 1 .. n : events'[k].requirementId = q
                            <=> \E i \in DOMAIN old : old[i] = k
    BY <1>3, <1>4, <1>5
  <2>4. /\ events'[n + 1].requirementId # q
        /\ ~ \E i \in DOMAIN old : old[i] = n + 1
    BY <1>1, <1>2, <1>3, <1>4, <1>6
  <2> QED
    BY <1>2, <1>3, <2>1, <2>2, <2>3, <2>4
<1>7. CASE q = r
  <2> DEFINE new == byRequirement'[q]
  <2>1. new = Append(old, n + 1)
    BY <1>7 DEF LogEvent, LogInv, LogTypeOK
  <2>2. /\ DOMAIN new = 1 .. Len(old) + 1
        /\ \A i \in 1 .. Len(old) : new[i] = old[i]
        /\ new[Len(old) + 1] = n + 1
    <3>1. old \in Seq(1 .. n + 1) /\ n + 1 \in 1 .. n + 1
      BY <1>2, <1>4
    <3> HIDE DEF old, n
    <3> QED
      BY <3>1, <2>1, AppendElements
  <2> HIDE DEF new, old, n
  <2>3. \A i, j \in DOMAIN new : i < j => new[i] < new[j]
    BY <1>2, <1>4, <1>5, <2>2
  <2>4. \A k \in 1 .. n : events'[k].requirementId = q
                            <=> \E i \in DOMAIN new : new[i] = k
    <3> SUFFICES ASSUME NEW k \in 1 .. n
                 PROVE  events'[k].requirementId = q
                          <=> \E i \in DOMAIN new : new[i] = k
      OBVIOUS
    <3>1. \A i \in 1 .. Len(old) : i \in DOMAIN new
      BY <1>4, <2>2
    <3>2. \A i \in DOMAIN new : new[i] = k => i \in 1 .. Len(old)
      BY <1>2, <1>4, <2>2
    <3>3. (\E i \in DOMAIN new : new[i] = k)
            <=> \E i \in 1 .. Len(old) : old[i] = k
      BY <2>2, <3>1, <3>2
    <3>4. events'[k] = events[k]
      BY <1>3
    <3> QED
      BY <1>5, <3>3, <3>4
  <2>5. \E i \in DOMAIN new : new[i] = n + 1
    BY <1>4, <2>2
  <2> QED
    <3>1. events'[n + 1].requirementId = q
      BY <1>1, <1>3, <1>7
    <3> QED
      BY <1>2, <1>3, <2>3, <2>4, <2>5, <3>1 DEF new
<1> QED
  BY <1>6, <1>7

\* Every call of the log keeps the invariant.
LEMMA NextLogInv == LogInv /\ [Next]_logVars => LogInv'
<1> SUFFICES ASSUME LogInv, [Next]_logVars
             PROVE  LogInv'
  OBVIOUS
<1>1. ASSUME NEW sender \in Writer, NEW e \in EventId,
             NEW r \in RequirementId, NEW s \in Stage, NEW a \in Writer,
             LogEvent(sender, e, r, s, a)
      PROVE  LogInv'
  BY <1>1, LogEventType, LogEventIndex DEF LogInv
<1>2. ASSUME NEW sender \in Writer, NEW w \in Writer, NEW status \in BOOLEAN,
             SetAuthorised(sender, w, status)
      PROVE  LogInv'
  BY <1>2 DEF SetAuthorised, LogInv, LogTypeOK, IndexExact
<1>3. CASE UNCHANGED logVars
  BY <1>3 DEF logVars, LogInv, LogTypeOK, IndexExact
<1> QED
  BY <1>1, <1>2, <1>3 DEF Next

\* Every behaviour of the log keeps its types and an exact index: for each
\* requirement exactly the positions of its events, in append order.
THEOREM LogAlwaysIndexed == Spec => [](LogTypeOK /\ IndexExact)
<1>1. LogInv => LogTypeOK /\ IndexExact
  BY DEF LogInv
<1> QED
  BY InitLogInv, NextLogInv, <1>1, PTL DEF Spec

-----------------------------------------------------------------------------

\* A step of the log, seen by a reader of the array and of every requirement.
AppendStep ==
  /\ Extends(events, events')
  /\ \A r \in RequirementId :
       Extends(GetEventsByRequirement(r), GetEventsByRequirement(r)')

\* logEvent() adds at the end of the array and of one requirement's history.
LEMMA LogEventAppends ==
  ASSUME LogInv,
         NEW sender \in Writer, NEW e \in EventId, NEW r \in RequirementId,
         NEW s \in Stage, NEW a \in Writer,
         LogEvent(sender, e, r, s, a)
  PROVE  AppendStep
<1> DEFINE n == Len(events)
<1>1. Record(e, r, s, a) \in AuditEvent
  BY DEF Record, AuditEvent
<1>2. n \in Nat /\ events \in Seq(AuditEvent)
  BY DEF LogInv, LogTypeOK
<1>3. /\ DOMAIN events = 1 .. n
      /\ DOMAIN events' = 1 .. n + 1
      /\ \A k \in 1 .. n : events'[k] = events[k]
  BY <1>1, <1>2, AppendElements DEF LogEvent
<1>4. Extends(events, events')
  BY <1>2, <1>3 DEF Extends
<1>5. ASSUME NEW q \in RequirementId
      PROVE  Extends(GetEventsByRequirement(q), GetEventsByRequirement(q)')
  <2> DEFINE old == byRequirement[q]
             new == byRequirement'[q]
  <2>1. /\ old \in Seq(1 .. n) /\ Len(old) \in Nat
        /\ \A i \in 1 .. Len(old) : old[i] \in 1 .. n
    BY DEF LogInv, LogTypeOK
  <2>2. /\ Len(new) \in Nat /\ Len(old) <= Len(new)
        /\ \A i \in 1 .. Len(old) : new[i] = old[i]
    <3>1. CASE q # r
      <4>1. new = old
        BY <3>1 DEF LogEvent, LogInv, LogTypeOK
      <4> QED
        BY <4>1, <2>1
    <3>2. CASE q = r
      <4>1. new = Append(old, n + 1)
        BY <3>2 DEF LogEvent, LogInv, LogTypeOK
      <4>2. old \in Seq(1 .. n + 1) /\ n + 1 \in 1 .. n + 1
        BY <1>2, <2>1
      <4> HIDE DEF old, new, n
      <4>3. /\ Len(new) = Len(old) + 1
            /\ \A i \in 1 .. Len(old) : new[i] = old[i]
        BY <4>1, <4>2, AppendElements
      <4> QED
        BY <4>3, <2>1
    <3> QED
      BY <3>1, <3>2
  <2>3. \A i \in 1 .. Len(old) :
          i \in 1 .. Len(new) /\ events'[new[i]] = events[old[i]]
    BY <1>2, <1>3, <2>1, <2>2
  <2> QED
    BY <2>3 DEF Extends, GetEventsByRequirement
<1> QED
  BY <1>4, <1>5 DEF AppendStep

\* Nothing stored is ever changed, moved or dropped, in the array or in the
\* history of any requirement.
THEOREM LogIsAppendOnly == Spec => AppendOnly
<1>1. LogInv /\ [Next]_logVars => [AppendStep]_logVars
  <2> SUFFICES ASSUME LogInv, [Next]_logVars
               PROVE  [AppendStep]_logVars
    OBVIOUS
  <2>1. ASSUME NEW sender \in Writer, NEW e \in EventId,
               NEW r \in RequirementId, NEW s \in Stage, NEW a \in Writer,
               LogEvent(sender, e, r, s, a)
        PROVE  AppendStep
    BY <2>1, LogEventAppends
  <2>2. ASSUME NEW sender \in Writer, NEW w \in Writer,
               NEW status \in BOOLEAN, SetAuthorised(sender, w, status)
        PROVE  AppendStep
    BY <2>2 DEF SetAuthorised, AppendStep, Extends, GetEventsByRequirement
  <2> QED
    BY <2>1, <2>2 DEF Next
<1>2. [AppendStep]_logVars
        <=> [/\ Extends(events, events')
             /\ \A r \in RequirementId :
                  Extends(GetEventsByRequirement(r),
                          GetEventsByRequirement(r)')]_logVars
  BY DEF AppendStep
<1> QED
  BY InitLogInv, NextLogInv, <1>1, <1>2, PTL DEF Spec, AppendOnly
=============================================================================
