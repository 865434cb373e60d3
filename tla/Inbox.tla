------------------------------- MODULE Inbox -------------------------------
(***************************************************************************)
(* How a question or a result reaches L3: the inbox of the platform        *)
(* (delivery.ts, file-store.ts, the commands that fill it, the repair of   *)
(* reconcile.ts), and the bridge that empties it into Codex chats          *)
(* (l3-mcp-server/): its registry of sessions, the daemon that polls, and  *)
(* the ledger of what was queued.                                          *)
(*                                                                         *)
(* A command of the platform is one step: it is a transaction, which       *)
(* module FileStore has in detail.  A step of the bridge ends where its    *)
(* process awaits or may die between two writes.  The daemon is one        *)
(* process at a time: the claim of its pid file is not modelled.  Missions *)
(* in the archive have no row left and are left out.                       *)
(***************************************************************************)
EXTENDS Integers, Sequences, FiniteSets, SequencesExt

CONSTANTS
  Missions,
  Names,          \* what a Delivery can be addressed to
  Origin,         \* [Missions -> Names], mission.origin.conversationRef
  Sessions,       \* Codex chats
  Offers,         \* the bindings sessions come with: <<session, name or All>>
  Dead,           \* chats codex can no longer queue to
  All,            \* inboxScope "all"
  None,
  LedgerSize,     \* 1000 in l3-state.ts
  MaxQuestions, MaxAttempts,
  Starts,         \* what the state file may hold when the service starts
  MaxActs,        \* bound: [Missions -> commands on it]
  MaxDeaths       \* bound: ends of the daemon

ASSUME NameAssumption ==
  /\ Origin \in [Missions -> Names]
  /\ All \notin Names /\ None \notin Names /\ All # None /\ None \notin Sessions
ASSUME OfferAssumption ==
  /\ Offers \subseteq Sessions \X (Names \cup {All})
  /\ Dead \subseteq Sessions
ASSUME BoundAssumption ==
  /\ LedgerSize \in Nat \ {0} /\ MaxQuestions \in Nat /\ MaxAttempts \in Nat \ {0}
  /\ MaxActs \in [Missions -> Nat] /\ MaxDeaths \in Nat

VARIABLES
  mission,   \* the stored Missions, what concerns L3
  row,       \* [Keys -> the Delivery with that key]
  binding,   \* [Sessions -> recipient, All or None], files of the registry
  active,    \* active.json
  ledger,    \* l3-queued.json
  bridge,    \* the daemon: where it is in pollOnce
  heard,     \* [Keys -> what L3 was told of it]
  reused,    \* keys under which an Attempt has submitted again
  acts, deaths

platform == <<mission, row, reused>>
registry == <<binding, active>>
vars == <<mission, row, reused, binding, active, ledger, bridge, heard, acts, deaths>>

-----------------------------------------------------------------------------
(* Deliveries by idempotency key.  asked: who raised each escalation, an   *)
(* Attempt or the platform (0).  attempt: the coordinator's latest, last:  *)
(* the one that submitted last, 0 for none.                                *)
Keys == (Missions \X {"escalated"} \X (1..MaxQuestions))
          \cup (Missions \X {"result"} \X (1..MaxAttempts))
EscalationKey(m, i) == <<m, "escalated", i>>
ResultKey(m, n)     == <<m, "result", n>>

States == [st: {"open", "review", "over"},
           asked: Seq(0..MaxAttempts), answered: 0..MaxQuestions,
           attempt: 1..MaxAttempts, last: 0..MaxAttempts]

Created(k) == [row EXCEPT ![k] = IF @ = "absent" THEN "pending" ELSE @]

(* What L3 still has to look at, whatever became of the row. *)
Due(k) ==
  LET m == mission[k[1]] IN
  IF k[2] = "escalated" THEN k[3] \in (m.answered + 1)..Len(m.asked)
  ELSE m.st = "review" /\ m.last = k[3]

(* deliveryStillOpen: what the platform tells of a row it has. *)
Newest(k) ==
  \A j \in Keys : j[1] = k[1] /\ j[2] = "result" /\ row[j] # "absent" => j[3] <= k[3]
StillOpen(k) ==
  IF k[2] = "escalated" THEN k[3] > mission[k[1]].answered
  ELSE mission[k[1]].st = "review" /\ Newest(k)

(* The registry.  Among equals the code takes the one that came last. *)
Registered == {s \in Sessions : binding[s] # None}
Preferred(S) == IF active \in S THEN {active} ELSE S
For(name) == Preferred({s \in Sessions : binding[s] = name})
BoundNames == {binding[s] : s \in Registered} \ {All}

(* resolveRoutes: pairs of an inbox query and the chat it is for. *)
RoutesOf(a) ==
  IF binding[a] = All THEN {{<<All, a>>}}
  ELSE {R \in SUBSET (BoundNames \X Registered) :
          /\ \A r \in R : r[2] \in For(r[1])
          /\ \A n \in BoundNames : Cardinality({r \in R : r[1] = n}) = 1}

(* resolveDeliveryBinding *)
Targets(k, r) ==
  IF r[1] # All \/ For(Origin[k[1]]) = {} THEN {r[2]} ELSE For(Origin[k[1]])

(* The daemon in pollOnce: routes still to fetch, what is left of the last *)
(* answer with the route it was for, the Delivery in hand and its chat.    *)
Bridges == [at: {"off", "loop", "queue", "remember", "ack"},
            routes: SUBSET ((Names \cup {All}) \X Sessions),
            todo: SUBSET (Keys \X BOOLEAN \X ((Names \cup {All}) \X Sessions)),
            cur: Keys \cup {None}, to: Sessions \cup {None}]
Off == [at |-> "off", routes |-> {}, todo |-> {}, cur |-> None, to |-> None]

(* A chat is told by codex queue.  "known": L3 has it, or may have it, and *)
(* the bridge cannot know; the next message of it is no mistake.           *)
Hearing == {"no", "once", "twice", "known"}
Told(k) == [heard EXCEPT ![k] = IF @ = "no" THEN "once" ELSE IF @ = "once" THEN "twice" ELSE @]
Unsure(S) == [k \in Keys |-> IF k \in S /\ heard[k] # "twice" THEN "known" ELSE heard[k]]

TypeOK ==
  /\ mission \in [Missions -> States]
  /\ row \in [Keys -> {"absent", "pending", "acked"}]
  /\ binding \in [Sessions -> Names \cup {All, None}]
  /\ active \in Sessions \cup {None}
  /\ ledger \in Seq(Keys)
  /\ bridge \in Bridges
  /\ heard \in [Keys -> Hearing]
  /\ reused \subseteq Keys
  /\ acts \in [Missions -> Nat] /\ deaths \in Nat

-----------------------------------------------------------------------------
(* A release whose commands were no transactions may have left a question *)
(* or a result without its row.                                            *)
WellFormed(m) ==
  /\ m.answered = 0 /\ Len(m.asked) <= MaxQuestions
  /\ m.last <= m.attempt /\ (m.st = "review" => m.last > 0)
ASSUME StartAssumption ==
  /\ Starts \subseteq [Missions -> States]
  /\ \A f \in Starts, m \in Missions : WellFormed(f[m])

Known(k) == IF k[2] = "escalated" THEN k[3] \in DOMAIN mission[k[1]].asked
            ELSE k[3] <= mission[k[1]].last

Init ==
  /\ mission \in Starts
  /\ row \in {[k \in Keys |-> IF k \in S THEN "pending" ELSE "absent"] :
                S \in SUBSET {k \in Keys : Known(k)}}
  /\ binding = [s \in Sessions |-> None] /\ active = None
  /\ ledger = <<>> /\ bridge = Off
  /\ heard = [k \in Keys |-> "no"]
  /\ reused = {}
  /\ acts = [m \in Missions |-> 0] /\ deaths = 0

-----------------------------------------------------------------------------
(* Commands. *)
Act(m) == acts[m] < MaxActs[m] /\ acts' = [acts EXCEPT ![m] = @ + 1]
OutsideTheBridge == UNCHANGED <<ledger, bridge, heard, deaths>>

(* escalateToL3 by the Attempt; submitContractCheck and the platform's     *)
(* diagnosis of a failing criterion (0) come the same way.  Nobody asks    *)
(* again before the answer.                                                *)
Escalate(m) ==
  /\ Act(m)
  /\ Len(mission[m].asked) < MaxQuestions
  /\ \E who \in {0, mission[m].attempt} :
       /\ \A i \in DOMAIN mission[m].asked : mission[m].asked[i] = who => i <= mission[m].answered
       /\ who = 0 => mission[m].st = "open"
       /\ mission' = [mission EXCEPT ![m].asked = Append(@, who)]
  /\ row' = Created(EscalationKey(m, Len(mission[m].asked) + 1))
  /\ UNCHANGED <<reused, registry>> /\ OutsideTheBridge

\* Mutation: an answer needs no question.
Answer_Unasked(m) ==
  /\ Act(m)
  /\ mission' = [mission EXCEPT ![m].answered = @ + 1]
  /\ UNCHANGED <<row, reused, registry>> /\ OutsideTheBridge

(* answerEscalation answers the earliest. *)
Answer(m) ==
  /\ Act(m)
  /\ mission[m].answered < Len(mission[m].asked)
  /\ mission' = [mission EXCEPT ![m].answered = @ + 1]
  /\ UNCHANGED <<row, reused, registry>> /\ OutsideTheBridge

(* submitMissionResult, with the key of the Attempt that submits. *)
Submit(m) ==
  LET n == mission[m].attempt k == ResultKey(m, n) IN
  /\ Act(m)
  /\ mission[m].st = "open"
  /\ mission' = [mission EXCEPT ![m].st = "review", ![m].last = n]
  /\ row' = Created(k)
  /\ reused' = IF row[k] = "absent" THEN reused ELSE reused \cup {k}
  /\ UNCHANGED registry /\ OutsideTheBridge

(* Back to planning: L3's send_back, or a revised contract. *)
SendBack(m) ==
  /\ Act(m)
  /\ mission[m].st = "review"
  /\ mission' = [mission EXCEPT ![m].st = "open"]
  /\ UNCHANGED <<row, reused, registry>> /\ OutsideTheBridge

(* Merged, abandoned or cancelled. *)
End(m) ==
  /\ Act(m)
  /\ mission[m].st # "over"
  /\ mission' = [mission EXCEPT ![m].st = "over"]
  /\ UNCHANGED <<row, reused, registry>> /\ OutsideTheBridge

(* The coordinator's Attempt ends and its next one starts. *)
NextAttempt(m) ==
  /\ Act(m)
  /\ mission[m].st = "open" /\ mission[m].attempt < MaxAttempts
  /\ mission' = [mission EXCEPT ![m].attempt = @ + 1]
  /\ UNCHANGED <<row, reused, registry>> /\ OutsideTheBridge

(* l3 ack, and a client of POST /deliveries/:id/ack. *)
AckByHand(k) ==
  /\ Act(k[1])
  /\ row[k] = "pending"
  /\ row' = [row EXCEPT ![k] = "acked"] /\ heard' = Unsure({k})
  /\ UNCHANGED <<mission, reused, registry, ledger, bridge, deaths>>

(* repairMissingDeliveries: every escalation, and the last submission of a *)
(* Mission that waits for its review or is over.                           *)
Missing(k) ==
  LET m == mission[k[1]] IN
  /\ row[k] = "absent"
  /\ IF k[2] = "escalated" THEN k[3] \in DOMAIN m.asked
     ELSE m.st # "open" /\ m.last = k[3]
Repair(k) ==
  /\ Missing(k)
  /\ row' = Created(k)
  /\ UNCHANGED <<mission, reused, registry, acts>> /\ OutsideTheBridge

-----------------------------------------------------------------------------
(* The registry of sessions. *)
InTheRegistry(s, name) ==
  /\ <<s, name>> \in Offers
  /\ binding[s] # name
  /\ binding' = [binding EXCEPT ![s] = name]
  /\ UNCHANGED <<platform, acts>> /\ OutsideTheBridge

(* registerSessionBinding: the active default is not taken from another. *)
Register(s, name) ==
  /\ InTheRegistry(s, name)
  /\ active' \in IF active # None THEN {active}
                 ELSE IF Registered # {} THEN Registered ELSE {s}

(* registerDeliveryRecipient, for the recipient of a new Mission. *)
RegisterRecipient(s, name) ==
  /\ For(name) = {} /\ name # All
  /\ InTheRegistry(s, name)
  /\ UNCHANGED active

(* COAGENTHUB_BINDING_TAKEOVER=1 *)
TakeOver(s, name) == InTheRegistry(s, name) /\ active' = s

-----------------------------------------------------------------------------
(* The daemon. *)
Apart == UNCHANGED <<platform, registry, acts>>

(* ensureBridge, called by a hook, by an MCP server when it starts and     *)
(* every 60 seconds, and after a Mission was created.                      *)
EnsureBridge ==
  /\ bridge.at = "off"
  /\ Registered # {}
  /\ bridge' = [bridge EXCEPT !.at = "loop"]
  /\ UNCHANGED <<ledger, heard, deaths>> /\ Apart

(* What a codex queue that is not waited for any longer may do. *)
Late == IF bridge.to \in Dead THEN heard ELSE Unsure({bridge.cur})

(* The process is gone; a codex queue it was waiting for may yet succeed. *)
Die ==
  /\ bridge.at # "off"
  /\ deaths < MaxDeaths /\ deaths' = deaths + 1
  /\ bridge' = Off
  /\ heard' \in CASE bridge.at = "queue"    -> {heard, Late}
                  [] bridge.at = "remember" -> {Unsure({bridge.cur})}
                  [] OTHER                  -> {heard}
  /\ UNCHANGED ledger /\ Apart

-----------------------------------------------------------------------------
(* pollOnce *)
PollBegin ==
  /\ bridge.at = "loop" /\ bridge.routes = {} /\ bridge.todo = {}
  /\ \E a \in Preferred(Registered) : \E R \in RoutesOf(a) :
       bridge' = [bridge EXCEPT !.routes = R]
  /\ UNCHANGED <<ledger, heard, deaths>> /\ Apart

(* GET /inbox for one route. *)
Fetched(r) ==
  {<<k, StillOpen(k), r>> : k \in {j \in Keys : row[j] = "pending" /\ r[1] \in {All, Origin[j[1]]}}}

Fetch(r, rows) ==
  /\ bridge.at = "loop" /\ bridge.todo = {} /\ r \in bridge.routes
  /\ bridge' = [bridge EXCEPT !.routes = @ \ {r}, !.todo = rows]
  /\ UNCHANGED <<ledger, heard, deaths>> /\ Apart

FetchOk(r)    == Fetch(r, Fetched(r))
FetchFails(r) == Fetch(r, {})

(* deliverOne.  What is over is acknowledged without waking anybody. *)
Send ==
  /\ bridge.at = "loop"
  /\ \E t \in bridge.todo : \E s \in Targets(t[1], t[3]) :
       bridge' = [bridge EXCEPT
         !.at = IF t[2] /\ ~Contains(ledger, t[1]) THEN "queue" ELSE "ack",
         !.cur = t[1], !.to = IF t[2] /\ ~Contains(ledger, t[1]) THEN s ELSE None,
         !.todo = @ \ {t}]
  /\ UNCHANGED <<ledger, heard, deaths>> /\ Apart

(* codex queue. *)
QueueOk(k) ==
  /\ bridge.at = "queue" /\ bridge.cur = k /\ bridge.to \notin Dead
  /\ heard' = Told(k)
  /\ bridge' = [bridge EXCEPT !.at = "remember", !.to = None]
  /\ UNCHANGED <<ledger, deaths>> /\ Apart

\* Mutation: what failed is acknowledged all the same.
QueueFails_Acks ==
  /\ bridge.at = "queue"
  /\ heard' \in {heard, Late}
  /\ bridge' = [bridge EXCEPT !.at = "ack", !.to = None]
  /\ UNCHANGED <<ledger, deaths>> /\ Apart

\* Mutation: one that fails ends the poll.
QueueFails_Throws ==
  /\ bridge.at = "queue"
  /\ heard' \in {heard, Late}
  /\ bridge' = [bridge EXCEPT !.at = "loop", !.cur = None, !.to = None,
                            !.todo = {}, !.routes = {}]
  /\ UNCHANGED <<ledger, deaths>> /\ Apart

(* It fails, or is killed after 30 seconds with the message in the chat.   *)
(* The next Delivery has its turn.                                         *)
QueueFails ==
  /\ bridge.at = "queue"
  /\ heard' \in {heard, Late}
  /\ bridge' = [bridge EXCEPT !.at = "loop", !.cur = None, !.to = None]
  /\ UNCHANGED <<ledger, deaths>> /\ Apart

(* rememberQueuedDelivery; beyond the limit the oldest are forgotten.      *)
Without(s, k) ==
  IF Contains(s, k) THEN RemoveAt(s, CHOOSE i \in DOMAIN s : s[i] = k) ELSE s
\* Mutation: the first are kept (slice(0, 1000)).
Newer_Oldest(s, k) ==
  LET all == Append(Without(s, k), k) IN
  IF Len(all) <= LedgerSize THEN all ELSE SubSeq(all, 1, LedgerSize)

Newer(s, k) ==
  LET all == Append(Without(s, k), k) IN
  IF Len(all) <= LedgerSize THEN all
  ELSE SubSeq(all, Len(all) - LedgerSize + 1, Len(all))

Remember ==
  /\ bridge.at = "remember"
  /\ ledger' = Newer(ledger, bridge.cur)
  /\ heard' = Unsure({k \in Keys : Contains(ledger, k) /\ ~Contains(ledger', k)})
  /\ bridge' = [bridge EXCEPT !.at = "ack"]
  /\ UNCHANGED deaths /\ Apart

(* atomicJsonWrite throws: what is on disk stays, the message is out.      *)
RememberFails ==
  /\ bridge.at = "remember"
  /\ heard' = Unsure({bridge.cur})
  /\ bridge' = [bridge EXCEPT !.at = "loop", !.cur = None]
  /\ UNCHANGED <<ledger, deaths>> /\ Apart

(* POST /deliveries/:id/ack is idempotent; when it fails the row waits for *)
(* the next poll.  An answer that is lost changes nothing here.            *)
Ack ==
  /\ bridge.at = "ack"
  /\ row' \in {row, [row EXCEPT ![bridge.cur] = "acked"]}
  /\ bridge' = [bridge EXCEPT !.at = "loop", !.cur = None]
  /\ UNCHANGED <<mission, reused, registry, acts, ledger, heard, deaths>>

-----------------------------------------------------------------------------
Command ==
  \/ \E m \in Missions : \/ Escalate(m) \/ Answer(m) \/ Submit(m) \/ SendBack(m)
                         \/ End(m) \/ NextAttempt(m)
  \/ \E k \in Keys : AckByHand(k) \/ Repair(k)

Binding ==
  \E o \in Offers : Register(o[1], o[2]) \/ RegisterRecipient(o[1], o[2]) \/ TakeOver(o[1], o[2])

Poll ==
  \/ PollBegin \/ (\E r \in bridge.routes : FetchOk(r) \/ FetchFails(r))
  \/ Send \/ (\E k \in Keys : QueueOk(k)) \/ QueueFails
  \/ Remember \/ RememberFails \/ Ack

Next == Command \/ Binding \/ EnsureBridge \/ Die \/ Poll

Spec == Init /\ [][Next]_vars

(* Fairness.  The daemon goes on (timers and its own code), somebody calls *)
(* ensureBridge (the timer of an MCP server), the repair is periodic.  The *)
(* platform answers at last a query that is repeated for ever, and chats   *)
(* that are alive cannot refuse for ever what they were not told.          *)
FirstTold == \E k \in Keys : heard[k] = "no" /\ QueueOk(k)
FairSpec ==
  /\ Spec
  /\ WF_vars(\E k \in Keys : Repair(k)) /\ WF_vars(EnsureBridge) /\ WF_vars(Poll)
  /\ \A n \in Names \cup {All} : SF_vars(\E s \in Sessions : FetchOk(<<n, s>>))
  /\ SF_vars(FirstTold)

-----------------------------------------------------------------------------
(* A Delivery leaves the inbox only when a chat was told of it, a person   *)
(* took it, or it is over for good: not by a death between the message and *)
(* the ledger, a message that fails, an acknowledgement that is lost or an *)
(* old answer of the platform (deliverOne, deliveryStillOpen, acknowledge).*)
(* An Attempt that submits again after a send-back is the exception: its   *)
(* key is taken, so the row may be acknowledged already (submitMissionResult). *)
AckedWasHeard ==
  \A k \in Keys : row[k] = "acked" =>
    heard[k] # "no" \/ k \in reused \/ ~StillOpen(k)

(* The Deliveries are the letters of a Mailbox: posted by a command or by  *)
(* the repair, known when a chat may have heard, moot when over for good.  *)
(* In particular what the platform once answered stays good enough to act  *)
(* on: no command makes a Delivery due again that was over, unless an      *)
(* Attempt takes its key again (deliveryStillOpen read by GET /inbox, used *)
(* by deliverOne after other messages were waited for).                    *)
Place == [k \in Keys |-> CASE row[k] = "absent"  -> "absent"
                           [] row[k] = "pending" -> "waiting"
                           [] row[k] = "acked"   -> "gone"]
Heard == {k \in Keys : heard[k] # "no"}
Moot  == {k \in Keys : row[k] # "absent" /\ (k \in reused \/ ~StillOpen(k))}

Box == INSTANCE Mailbox WITH Letters <- Keys, place <- Place, known <- Heard, moot <- Moot
ImplementsMailbox == Box!Spec

(* A chat is told twice only for a reason the ledger cannot know of: the   *)
(* daemon died or timed out before it wrote, the write failed, or the      *)
(* ledger was full (hasQueuedDelivery, rememberQueuedDelivery).  An        *)
(* acknowledgement that fails is retried alone.                            *)
ToldOnce == \A k \in Keys : heard[k] # "twice"

(* What L3 has to look at is never dropped: its row is in the inbox, or is *)
(* one that the repair creates, or L3 was told, or the key was taken again *)
(* (repairMissingDeliveries, deliveryStillOpen, submitMissionResult).  The *)
(* number an Attempt submits under and the rows other Attempts left must   *)
(* never make a result look superseded that is not.                        *)
DueIsNotDropped ==
  \A k \in Keys : Due(k) =>
    \/ row[k] = "pending" /\ StillOpen(k)
    \/ Missing(k)
    \/ row[k] = "acked" /\ (heard[k] # "no" \/ k \in reused)

(* What L3 has to look at is told to the chat it is for, when that chat is *)
(* registered and alive, although daemons die, rows were missing, other    *)
(* chats are dead and their messages fail for ever (pollOnce,              *)
(* ensureBridge, repairMissingDeliveries).                                 *)
Reachable(k) ==
  /\ For(Origin[k[1]]) # {}
  /\ For(Origin[k[1]]) \cap Dead = {}
DueIsHeard ==
  \A k \in Keys :
    (Due(k) /\ Reachable(k)) ~> (heard[k] # "no" \/ ~Due(k) \/ ~Reachable(k) \/ row[k] = "acked")
=============================================================================
