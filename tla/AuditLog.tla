------------------------------ MODULE AuditLog ------------------------------
(***************************************************************************)
(* The on-chain audit trail, contracts/AuditLog.sol: an append-only array  *)
(* of events, an index from requirement to positions in that array, and    *)
(* the writers its owner authorises.  Summary, payload hash and timestamp  *)
(* of an event are left out: the contract stores them unread.              *)
(***************************************************************************)
EXTENDS Naturals, Sequences

CONSTANTS
  Writer,        \* accounts that send transactions
  EventId,       \* event identifiers minted by the Python layer
  RequirementId, \* procurement requirements
  MaxEvents      \* bound on the length of the log

ASSUME LogAssumption == MaxEvents \in Nat

VARIABLES
  events,        \* _events
  byRequirement, \* _byRequirement: requirement -> indices into events
  authorised,    \* accounts that may write
  logOwner       \* owner

logVars == <<events, byRequirement, authorised, logOwner>>

\* enum Stage, which mirrors CNPStage.
Stage == {"ANNOUNCED", "BIDDING", "EVALUATING", "AWARDED",
          "EXECUTING", "DELIVERED", "SETTLED", "FAILED"}

AuditEvent ==
  [eventId : EventId, requirementId : RequirementId, stage : Stage,
   actor : Writer]

\* Every variable holds a value of its declared type; an index is always an
\* index of the array it points into.
LogTypeOK ==
  /\ events \in Seq(AuditEvent)
  /\ byRequirement \in [RequirementId -> Seq(1 .. Len(events))]
  /\ authorised \in SUBSET Writer
  /\ logOwner \in Writer

-----------------------------------------------------------------------------

\* modifier onlyAuthorised
CanLog(sender) == sender \in authorised

Record(eventId, requirementId, stage, actor) ==
  [eventId |-> eventId, requirementId |-> requirementId,
   stage |-> stage, actor |-> actor]

\* Wrong on purpose: the event is not indexed.
LogEventUnindexed(sender, eventId, requirementId, stage, actor) ==
  /\ CanLog(sender)
  /\ events' = Append(events, Record(eventId, requirementId, stage, actor))
  /\ UNCHANGED <<byRequirement, authorised, logOwner>>

\* Wrong on purpose: the newest event comes first.
LogEventPrepended(sender, eventId, requirementId, stage, actor) ==
  /\ CanLog(sender)
  /\ events' = <<Record(eventId, requirementId, stage, actor)>> \o events
  /\ byRequirement' =
       [byRequirement EXCEPT ![requirementId] = Append(@, Len(events) + 1)]
  /\ UNCHANGED <<authorised, logOwner>>

\* logEvent().  Solidity counts positions from 0, TLA+ from 1.
LogEvent(sender, eventId, requirementId, stage, actor) ==
  /\ CanLog(sender)
  /\ events' = Append(events, Record(eventId, requirementId, stage, actor))
  /\ byRequirement' =
       [byRequirement EXCEPT ![requirementId] = Append(@, Len(events) + 1)]
  /\ UNCHANGED <<authorised, logOwner>>

\* setAuthorised(), onlyOwner.
SetAuthorised(sender, writer, status) ==
  /\ sender = logOwner
  /\ authorised' = IF status THEN authorised \cup {writer}
                             ELSE authorised \ {writer}
  /\ UNCHANGED <<events, byRequirement, logOwner>>

\* getEventsByRequirement(): the events its index lists, in index order.
GetEventsByRequirement(r) ==
  [i \in 1 .. Len(byRequirement[r]) |-> events[byRequirement[r][i]]]

\* totalEvents()
TotalEvents == Len(events)

-----------------------------------------------------------------------------

\* The constructor authorises the deployer.
LogInit(deployer) ==
  /\ events = <<>>
  /\ byRequirement = [r \in RequirementId |-> <<>>]
  /\ authorised = {deployer}
  /\ logOwner = deployer

Init == \E deployer \in Writer : LogInit(deployer)

Next ==
  \E sender \in Writer :
    \/ /\ TotalEvents < MaxEvents
       /\ \E e \in EventId, r \in RequirementId, s \in Stage, a \in Writer :
            LogEvent(sender, e, r, s, a)
    \/ \E w \in Writer, status \in BOOLEAN : SetAuthorised(sender, w, status)

Spec == Init /\ [][Next]_logVars

-----------------------------------------------------------------------------
(* Properties *)

\* The index is exact: for each requirement it lists every position of the
\* array that holds one of its events, once, in append order.
IndexExact ==
  \A r \in RequirementId :
    LET idx == byRequirement[r] IN
      /\ \A i, j \in DOMAIN idx : i < j => idx[i] < idx[j]
      /\ \A k \in DOMAIN events :
           events[k].requirementId = r <=> \E i \in DOMAIN idx : idx[i] = k

\* "Events are append-only and cannot be modified or deleted"
\* (AuditLog.sol:11): no call changes, moves or drops a stored event, neither
\* in the array nor in what a reader of any requirement has already been told.
Extends(old, new) ==
  \A k \in DOMAIN old : k \in DOMAIN new /\ new[k] = old[k]

AppendOnly ==
  [][/\ Extends(events, events')
     /\ \A r \in RequirementId :
          Extends(GetEventsByRequirement(r), GetEventsByRequirement(r)')
    ]_logVars
=============================================================================
