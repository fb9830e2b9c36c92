---------------------------- MODULE OfficeProofs ----------------------------
(***************************************************************************)
(* Proofs about the back office: modules Tickets, Planning, Accounts,      *)
(* Settings and Alerts, for any number of tickets, edits, identities,      *)
(* processes and requests.                                                 *)
(* The parts share no table and each has its own specification.            *)
(***************************************************************************)
EXTENDS Tickets, Planning, Accounts, Settings, Alerts, FiniteSetTheorems, WellFoundedInduction, TLAPS

-----------------------------------------------------------------------------
(***************************************************************************)
(* Tickets.  PlayerNotForgotten says nothing of a ticket on which a        *)
(* message waits for its status.  Inductive is what bridges that moment    *)
(* (OneWriter): on an undisturbed ticket at most one message waits, and it *)
(* is the last of the thread.                                              *)
(***************************************************************************)
Posted(r) == request[r].stage = "posted"

Side(kind) == IF kind = "reply" THEN "player" ELSE "staff"

OneWriter ==
    \A t \in Ticket \ mixed, r \in Request :
        Posted(r) /\ request[r].ticket = t =>
            /\ Last(t) = Side(request[r].kind) /\ request[r].kind # "close"
            /\ \A q \in Request : Posted(q) /\ request[q].ticket = t => q = r

TicketInv == TicketTypeOK /\ OneWriter /\ PlayerNotForgotten

\* The status fits who wrote last.
Fits(status, side) ==
    /\ side = "player" => status \in {"OPEN", "IN_PROGRESS", "CLOSED"}
    /\ side = "staff" => status \in {"WAITING_USER", "RESOLVED", "CLOSED"}

\* OneWriter and PlayerNotForgotten of one ticket.
TicketKept(t) ==
    /\ \A r \in Request : Posted(r) /\ request[r].ticket = t =>
           /\ Last(t) = Side(request[r].kind) /\ request[r].kind # "close"
           /\ \A q \in Request : Posted(q) /\ request[q].ticket = t => q = r
    /\ (\A r \in Request : request[r].ticket = t => ~Posted(r)) => Fits(tickets[t], Last(t))

-----------------------------------------------------------------------------
(* A thread ends with the message that was appended to it.                 *)
LEMMA LastOfAppend ==
    ASSUME NEW S, NEW s \in Seq(S), NEW x \in S
    PROVE  Append(s, x)[Len(Append(s, x))] = x
OBVIOUS

(* A new ticket waits for staff, an answered one for its player.           *)
LEMMA TicketInitial == ASSUME TicketInit PROVE TicketInv
<1>1. TicketTypeOK
  <2>1. tickets \in [Ticket -> Status]
    BY TicketAssumption DEF TicketInit
  <2>2. thread \in [Ticket -> Seq({"player", "staff"})]
    <3>1. <<"player", "staff">> \in Seq({"player", "staff"}) /\ <<"player">> \in Seq({"player", "staff"})
      OBVIOUS
    <3> QED
      BY <3>1 DEF TicketInit
  <2>3. request \in [Request -> RequestRow]
    BY DEF TicketInit, RequestRow, Status
  <2> QED
    BY <2>1, <2>2, <2>3 DEF TicketInit, TicketTypeOK
<1>2. \A r \in Request : ~Posted(r)
  BY DEF TicketInit, Posted
<1>3. ASSUME NEW t \in Ticket PROVE Fits(tickets[t], Last(t))
  <2>1. tickets[t] \in Status
    BY TicketAssumption DEF TicketInit
  <2>2. CASE tickets[t] \in {"WAITING_USER", "RESOLVED"}
    <3>1. thread[t] = <<"player", "staff">>
      BY <2>2 DEF TicketInit
    <3> QED
      BY <2>2, <3>1 DEF Fits, Last
  <2>3. CASE tickets[t] \notin {"WAITING_USER", "RESOLVED"}
    <3>1. thread[t] = <<"player">>
      BY <2>3 DEF TicketInit
    <3> QED
      BY <2>1, <2>3, <3>1 DEF Fits, Last, Status
  <2> QED
    BY <2>2, <2>3
<1> QED
  BY <1>1, <1>2, <1>3 DEF TicketInv, OneWriter, PlayerNotForgotten, Fits, Posted

(* What a step leaves of a ticket whose thread, status and waiting         *)
(* messages it does not touch.                                             *)
LEMMA Untouched ==
    ASSUME TicketInv, NEW t \in Ticket \ mixed,
           \A q \in Request : request'[q].ticket = request[q].ticket /\ request'[q].kind = request[q].kind,
           \A q \in Request : request[q].ticket = t => (Posted(q)' <=> Posted(q)),
           tickets'[t] = tickets[t], thread'[t] = thread[t]
    PROVE  TicketKept(t)'
<1>1. Last(t)' = Last(t)
  BY DEF Last
<1>2. TicketKept(t)
  BY DEF TicketInv, OneWriter, PlayerNotForgotten, TicketKept, Posted, Fits
<1> QED
  BY <1>1, <1>2 DEF TicketKept

(* A request that moves changes its own stage and no type.                 *)
LEMMA MoveOnlyStage ==
    ASSUME TicketTypeOK, NEW r \in Request, NEW stage \in {"read", "posted", "done"}, Move(r, stage)
    PROVE  /\ request' \in [Request -> RequestRow] /\ mixed' \subseteq Ticket /\ mixed \subseteq mixed'
           /\ \A q \in Request : request'[q].ticket = request[q].ticket /\ request'[q].kind = request[q].kind
           /\ \A q \in Request \ {r} : request'[q] = request[q]
           /\ request'[r].stage = stage
           /\ request[r].ticket \in Ticket \ mixed' =>
                  \A q \in Request \ {r} : request[q].ticket = request[r].ticket => ~Posted(q)
<1>1. request[r] \in RequestRow /\ request' = [request EXCEPT ![r].stage = stage]
  BY DEF TicketTypeOK, Move
<1>2. request' \in [Request -> RequestRow]
  BY <1>1 DEF TicketTypeOK, RequestRow
<1>3. mixed' \subseteq Ticket /\ mixed \subseteq mixed'
  BY <1>1 DEF TicketTypeOK, Move, RequestRow
<1>4. \A q \in Request : request'[q].ticket = request[q].ticket /\ request'[q].kind = request[q].kind
  BY <1>1 DEF TicketTypeOK, RequestRow
<1>5. (\A q \in Request \ {r} : request'[q] = request[q]) /\ request'[r].stage = stage
  BY <1>1 DEF TicketTypeOK, RequestRow
<1>6. request[r].ticket \in Ticket \ mixed' => ~Overlaps(request[r].ticket, r)
  BY DEF Move
<1> QED
  BY <1>2, <1>3, <1>4, <1>5, <1>6 DEF Overlaps, Posted

-----------------------------------------------------------------------------
(* Steps that write no message and no status: reading the ticket, refusing *)
(* a closed one, and a request that is lost.                               *)
LEMMA SilentSteps ==
    ASSUME TicketInv, NEW r \in Request, Read(r) \/ Refuse(r) \/ RequestFails(r)
    PROVE  TicketInv'
<1>1. request[r] \in RequestRow /\ request[r].ticket \in Ticket
  BY DEF TicketInv, TicketTypeOK, RequestRow
<1>2. /\ request' \in [Request -> RequestRow]
      /\ \A q \in Request : request'[q].ticket = request[q].ticket /\ request'[q].kind = request[q].kind
      /\ \A q \in Request \ {r} : request'[q] = request[q]
  <2>1. CASE Read(r)
    <3>1. tickets[request[r].ticket] \in Status /\ request \in [Request -> RequestRow]
      BY <1>1 DEF TicketInv, TicketTypeOK
    <3>2. request' = [request EXCEPT ![r] = [request[r] EXCEPT !.stage = "read",
                                                               !.seen = tickets[request[r].ticket]]]
      BY <2>1, <3>1 DEF Read
    <3>3. request'[r] = [request[r] EXCEPT !.stage = "read", !.seen = tickets[request[r].ticket]]
      BY <3>1, <3>2
    <3>4. request'[r] \in RequestRow /\ request'[r].ticket = request[r].ticket /\ request'[r].kind = request[r].kind
      BY <1>1, <3>1, <3>3 DEF RequestRow
    <3>5. \A q \in Request \ {r} : request'[q] = request[q]
      BY <3>1, <3>2
    <3>6. request' \in [Request -> RequestRow]
      BY <3>1, <3>2, <3>4, <3>5
    <3>7. \A q \in Request : request'[q].ticket = request[q].ticket /\ request'[q].kind = request[q].kind
      BY <3>4, <3>5
    <3> QED
      BY <3>5, <3>6, <3>7
  <2>2. CASE Refuse(r) \/ RequestFails(r)
    <3>1. request \in [Request -> RequestRow] /\ request' = [request EXCEPT ![r].stage = "done"]
      BY <2>2 DEF TicketInv, TicketTypeOK, Refuse, RequestFails
    <3>2. request' \in [Request -> RequestRow]
      BY <3>1 DEF RequestRow
    <3>3. \A q \in Request : request'[q].ticket = request[q].ticket /\ request'[q].kind = request[q].kind
      BY <3>1 DEF RequestRow
    <3>4. \A q \in Request \ {r} : request'[q] = request[q]
      BY <3>1
    <3> QED
      BY <3>2, <3>3, <3>4
  <2> QED
    BY <2>1, <2>2
<1>3. ~Posted(r)'
  BY <1>1 DEF TicketInv, TicketTypeOK, RequestRow, Read, Refuse, RequestFails, Posted
<1>4. tickets' = tickets /\ thread' = thread /\ mixed \subseteq mixed' /\ mixed' \subseteq Ticket
  BY <1>1 DEF TicketInv, TicketTypeOK, Read, Refuse, RequestFails
<1>5. Posted(r) => request[r].ticket \in mixed'
  BY DEF Read, Refuse, RequestFails, Posted
<1>6. TicketTypeOK'
  BY <1>2, <1>4 DEF TicketInv, TicketTypeOK
<1>7. ASSUME NEW t \in Ticket \ mixed' PROVE TicketKept(t)'
  <2>1. \A q \in Request : request[q].ticket = t => (Posted(q)' <=> Posted(q))
    BY <1>2, <1>3, <1>5 DEF Posted
  <2> QED
    BY <1>2, <1>4, <2>1, Untouched
<1> QED
  BY <1>6, <1>7 DEF TicketInv, OneWriter, PlayerNotForgotten, TicketKept, Posted, Fits

(* A message is the last of its thread, and the only one that waits for a  *)
(* status unless another request was on the ticket.                        *)
LEMMA MessageKeeps ==
    ASSUME TicketInv, NEW r \in Request, PostMessage(r)
    PROVE  TicketInv'
<1> DEFINE own == request[r].ticket
<1>1. own \in Ticket /\ Move(r, "posted") /\ tickets' = tickets /\ TicketTypeOK
  BY DEF TicketInv, TicketTypeOK, RequestRow, PostMessage
<1>2. /\ request[r].kind # "close"
      /\ thread' = [thread EXCEPT ![own] = Append(@, Side(request[r].kind))]
      /\ Side(request[r].kind) \in {"player", "staff"}
  BY DEF PostMessage, MayPost, Side
<1>3. thread' \in [Ticket -> Seq({"player", "staff"})]
  BY <1>1, <1>2 DEF TicketTypeOK
<1>4. Last(own)' = Side(request[r].kind)
  <2>1. thread'[own] = Append(thread[own], Side(request[r].kind)) /\ thread[own] \in Seq({"player", "staff"})
    BY <1>1, <1>2 DEF TicketTypeOK
  <2>2. Append(thread[own], Side(request[r].kind))[Len(Append(thread[own], Side(request[r].kind)))]
            = Side(request[r].kind)
    BY <1>2, <2>1, LastOfAppend
  <2>3. Last(own)' = thread'[own][Len(thread'[own])]
    BY <1>1, MoveOnlyStage DEF Last
  <2> QED
    BY <2>1, <2>2, <2>3
<1>5. TicketTypeOK'
  BY <1>1, <1>3, MoveOnlyStage DEF TicketTypeOK
<1>6. ASSUME NEW t \in Ticket \ mixed' PROVE TicketKept(t)'
  <2>1. CASE t = own
    <3>1. \A q \in Request : Posted(q)' /\ request'[q].ticket = t => q = r
      BY <1>1, <2>1, MoveOnlyStage DEF Posted
    <3>2. Posted(r)' /\ request'[r].ticket = t /\ request'[r].kind = request[r].kind
      BY <1>1, <2>1, MoveOnlyStage DEF Posted
    <3> QED
      BY <1>2, <1>4, <2>1, <3>1, <3>2 DEF TicketKept
  <2>2. CASE t # own
    <3>1. thread'[t] = thread[t] /\ t \in Ticket \ mixed
      BY <1>1, <1>2, <2>2, MoveOnlyStage DEF TicketTypeOK
    <3>2. \A q \in Request : request[q].ticket = t => (Posted(q)' <=> Posted(q))
      BY <1>1, <2>2, MoveOnlyStage DEF Posted
    <3> QED
      BY <1>1, <3>1, <3>2, MoveOnlyStage, Untouched
  <2> QED
    BY <2>1, <2>2
<1> QED
  BY <1>5, <1>6 DEF TicketInv, OneWriter, PlayerNotForgotten, TicketKept, Posted, Fits

(* The status written fits the message it was written for.                 *)
LEMMA StatusFits ==
    ASSUME TicketInv, NEW r \in Request, UpdateStatus(r), request[r].ticket \in Ticket \ mixed
    PROVE  Fits(StatusFor(r), Last(request[r].ticket))
<1>1. CASE request[r].kind = "close"
  BY <1>1 DEF StatusFor, Fits
<1>2. CASE request[r].kind # "close"
  <2>1. Last(request[r].ticket) = Side(request[r].kind)
    BY <1>2 DEF TicketInv, OneWriter, UpdateStatus, Posted
  <2>2. request[r].kind \in {"reply", "staff reply", "staff resolve"}
    BY <1>2 DEF TicketInv, TicketTypeOK, RequestRow, Kind
  <2> QED
    BY <2>1, <2>2 DEF StatusFor, StatusAfterReply, Side, Fits
<1> QED
  BY <1>1, <1>2

(* A status closes its message's wait.                                     *)
LEMMA StatusKeeps ==
    ASSUME TicketInv, NEW r \in Request, UpdateStatus(r)
    PROVE  TicketInv'
<1> DEFINE own == request[r].ticket
<1>1. own \in Ticket /\ Move(r, "done") /\ thread' = thread /\ TicketTypeOK
  BY DEF TicketInv, TicketTypeOK, RequestRow, UpdateStatus
<1>2. tickets' = [tickets EXCEPT ![own] = StatusFor(r)] /\ StatusFor(r) \in Status
  <2>1. request[r].kind \in Kind
    BY <1>1 DEF TicketTypeOK, RequestRow
  <2> QED
    BY <2>1 DEF UpdateStatus, StatusFor, StatusAfterReply, Kind, Status
<1>3. TicketTypeOK'
  BY <1>1, <1>2, MoveOnlyStage DEF TicketTypeOK
<1>4. ASSUME NEW t \in Ticket \ mixed' PROVE TicketKept(t)'
  <2>0. t \in Ticket \ mixed
    BY <1>1, MoveOnlyStage
  <2>1. CASE t = own
    <3>1. \A q \in Request : request'[q].ticket = t => ~Posted(q)'
      BY <1>1, <2>1, MoveOnlyStage DEF Posted
    <3>2. Fits(tickets'[t], Last(t)')
      BY <1>1, <1>2, <2>0, <2>1, StatusFits DEF TicketTypeOK, Last
    <3> QED
      BY <3>1, <3>2 DEF TicketKept
  <2>2. CASE t # own
    <3>1. tickets'[t] = tickets[t]
      BY <1>1, <1>2, <2>2 DEF TicketTypeOK
    <3>2. \A q \in Request : request[q].ticket = t => (Posted(q)' <=> Posted(q))
      BY <1>1, <2>2, MoveOnlyStage DEF Posted
    <3> QED
      BY <1>1, <2>0, <3>1, <3>2, MoveOnlyStage, Untouched
  <2> QED
    BY <2>1, <2>2
<1> QED
  BY <1>3, <1>4 DEF TicketInv, OneWriter, PlayerNotForgotten, TicketKept, Posted, Fits

-----------------------------------------------------------------------------
(* However many requests answer however many tickets: a player who wrote   *)
(* last is in the staff's queue, one who was answered is not               *)
(* (postMessage and replyTicket, on tickets no two requests shared).       *)
THEOREM TicketsKept == TicketSpec => []PlayerNotForgotten
<1>1. TicketInit => TicketInv
  BY TicketInitial
<1>2. TicketInv /\ [TicketNext]_ticketVars => TicketInv'
  <2> SUFFICES ASSUME TicketInv, [TicketNext]_ticketVars PROVE TicketInv'
    OBVIOUS
  <2>1. ASSUME NEW r \in Request,
               Read(r) \/ Refuse(r) \/ PostMessage(r) \/ UpdateStatus(r) \/ RequestFails(r)
        PROVE  TicketInv'
    BY <2>1, SilentSteps, MessageKeeps, StatusKeeps
  <2>2. CASE UNCHANGED ticketVars
    BY <2>2 DEF ticketVars, TicketInv, TicketTypeOK, OneWriter, PlayerNotForgotten, Posted, Last
  <2> QED
    BY <2>1, <2>2 DEF TicketNext
<1>3. TicketInv => PlayerNotForgotten
  BY DEF TicketInv
<1> QED
  BY <1>1, <1>2, <1>3, PTL DEF TicketSpec

-----------------------------------------------------------------------------
(***************************************************************************)
(* Planning and the team sizes of module Capacity.  EditsKeepPlan is not   *)
(* inductive: an edit is written some steps after it was checked.  What    *)
(* the check established of the edit must hold for as long as nothing is   *)
(* written beside it (PendingKept), and an event that does not exist yet   *)
(* has neither seats nor edits (NothingBefore).                            *)
(***************************************************************************)
Columns == Fields \union {"status", "type"}

Shape ==
    /\ plan = [f \in Columns |-> plan[f]]
    /\ seats = [s \in Seat |-> seats[s]]
    /\ edit = [a \in Editor |-> edit[a]]
    /\ \A a \in Editor : Open(a) => edit[a].input \in Edits

NothingBefore == plan.status = "NONE" => Confirmed = {} /\ \A a \in Editor : ~Open(a)

\* What the check of an edit leaves to be relied on when it is written.
Kept(e) ==
    /\ "slots" \in DOMAIN e => FloorKept(e.slots)
    /\ "perTeam" \in DOMAIN e => Confirmed = {}
    /\ {"start", "deadline"} \intersect DOMAIN e # {} =>
          Overlay(e, plan).deadline <= Overlay(e, plan).start

PendingKept == ~crossed => \A a \in Editor : Open(a) => Kept(edit[a].input)

PlanInv == Shape /\ NothingBefore /\ PendingKept /\ EditsKeepPlan

-----------------------------------------------------------------------------
(* The economics service prices an event with a table of team sizes of its *)
(* own, the seats are sold by the table of lib/capacity.ts, and the tables *)
(* differ on custom events, for which both clamp what the administrator    *)
(* gave.  For every mode, and every number of players given or left out,   *)
(* the fee is estimated with the team size that is stored, and the stored  *)
(* row is read as that size (tournament-economics.service.ts:111).         *)
THEOREM PricedAsPlayed ==
    ASSUME NEW t \in Type, NEW n \in Int
    PROVE  /\ PlayersPerTeamFor(t, n) \in 1..8
           /\ PricedTeamSize(t, n) = PlayersPerTeamFor(t, n)
           /\ PlayersPerTeamOf(t, PlayersPerTeamFor(t, n)) = PlayersPerTeamFor(t, n)
           /\ IsTeamMode(t, PlayersPerTeamFor(t, n)) <=> PlayersPerTeamFor(t, n) > 1
<1>1. CASE t = "CUSTOM"
  BY <1>1 DEF PlayersPerTeamFor, PricedTeamSize, PlayersPerTeamOf, IsTeamMode, Clamp, Given, Null
<1>2. CASE t # "CUSTOM"
  <2>1. t \in {"SOLO", "DUO", "SQUAD", "CLASH_SQUAD", "LONE_WOLF", "CLASH_SQUAD_1V1"}
    BY <1>2 DEF Type
  <2>2. MODE_TEAM_SIZE[t] \in {1, 2, 4} /\ TEAM_SIZE[t] = MODE_TEAM_SIZE[t]
    BY <2>1 DEF MODE_TEAM_SIZE, TEAM_SIZE
  <2>3. PlayersPerTeamFor(t, n) = MODE_TEAM_SIZE[t] /\ PricedTeamSize(t, n) = TEAM_SIZE[t]
    BY <1>2 DEF PlayersPerTeamFor, PricedTeamSize
  <2> QED
    BY <1>2, <2>2, <2>3 DEF PlayersPerTeamOf, IsTeamMode
<1> QED
  BY <1>1, <1>2

-----------------------------------------------------------------------------
(* Nothing is planned at first.                                            *)
LEMMA PlanInitial == ASSUME PlanInit PROVE PlanInv
<1>1. Shape
  BY DEF PlanInit, Shape, Columns, Fields, Open, NoEdit
<1>2. Confirmed = {} /\ \A a \in Editor : ~Open(a)
  BY DEF PlanInit, Confirmed, Open, NoEdit
<1>3. plan.deadline <= plan.start
  BY DEF PlanInit
<1> QED
  BY <1>1, <1>2, <1>3 DEF PlanInv, NothingBefore, PendingKept, EditsKeepPlan

(* An edit replaces its own fields and no other.                           *)
LEMMA OverlayFields ==
    ASSUME NEW e \in Edits, Shape
    PROVE  /\ \A f \in DOMAIN e : Overlay(e, plan)[f] = e[f]
           /\ \A f \in Columns \ DOMAIN e : Overlay(e, plan)[f] = plan[f]
           /\ Overlay(e, plan) = [f \in Columns |-> Overlay(e, plan)[f]]
           /\ {"status", "type"} \intersect DOMAIN e = {}
<1>1. DOMAIN plan = Columns
  BY DEF Shape
<1>2. DOMAIN e \subseteq Fields
  BY PlanningAssumption
<1> QED
  BY <1>1, <1>2 DEF Overlay, Columns, Fields

(* The edit that was checked is the one that is written.                   *)
LEMMA CommitEditKeeps ==
    ASSUME PlanInv, NEW a \in Editor, CommitEdit(a)
    PROVE  PlanInv'
<1> DEFINE e == edit[a].input
<1>1. Open(a) /\ e \in Edits /\ Shape /\ plan' = Overlay(e, plan) /\ seats' = seats
  BY DEF PlanInv, Shape, CommitEdit
<1>2. edit' = [b \in Editor |-> IF b = a THEN NoEdit ELSE edit[b]]
  BY DEF PlanInv, Shape, CommitEdit
<1>3. /\ \A f \in DOMAIN e : plan'[f] = e[f]
      /\ \A f \in Columns \ DOMAIN e : plan'[f] = plan[f]
      /\ plan' = [f \in Columns |-> plan'[f]]
      /\ plan'.status = plan.status /\ plan'.type = plan.type
  BY <1>1, OverlayFields DEF Columns
<1>4. \A b \in Editor : Open(b)' => Open(b) /\ b # a /\ edit'[b] = edit[b]
  BY <1>2 DEF Open, NoEdit
<1>5. Confirmed' = Confirmed
  BY <1>1 DEF Confirmed
<1>6. Shape'
  BY <1>1, <1>2, <1>3, <1>4 DEF Shape
<1>7. NothingBefore'
  BY <1>3, <1>4, <1>5 DEF PlanInv, NothingBefore
<1>8. PendingKept'
  BY <1>4 DEF CommitEdit, PendingKept
<1>9. EditsKeepPlan'
  <2> SUFFICES ASSUME ~crossed' PROVE EditsKeepPlan'
    BY DEF EditsKeepPlan
  <2>1. ~crossed /\ Kept(e)
    BY <1>1 DEF CommitEdit, PlanInv, PendingKept
  <2>2. plan'.deadline <= plan'.start
    <3>1. CASE {"start", "deadline"} \intersect DOMAIN e # {}
      BY <1>1, <2>1, <3>1 DEF Kept
    <3>2. CASE {"start", "deadline"} \intersect DOMAIN e = {}
      <4>1. plan'.deadline = plan.deadline /\ plan'.start = plan.start
        BY <1>3, <3>2 DEF Columns, Fields
      <4> QED
        BY <2>1, <4>1 DEF PlanInv, EditsKeepPlan
    <3> QED
      BY <3>1, <3>2
  <2>3. ASSUME NEW s \in Confirmed PROVE s <= plan'.slots
    <3>1. CASE "slots" \in DOMAIN e
      BY <1>3, <2>1, <2>3, <3>1 DEF Kept, FloorKept
    <3>2. CASE "slots" \notin DOMAIN e
      <4>1. plan'.slots = plan.slots
        BY <1>3, <3>2 DEF Columns, Fields
      <4> QED
        BY <2>1, <2>3, <4>1 DEF PlanInv, EditsKeepPlan
    <3> QED
      BY <3>1, <3>2
  <2>4. ASSUME NEW s \in Confirmed
        PROVE seats[s] = PlayersPerTeamOf(plan'.type, plan'.perTeam)
    <3>1. "perTeam" \notin DOMAIN e
      BY <2>1, <2>4 DEF Kept
    <3>2. plan'.perTeam = plan.perTeam
      BY <1>3, <3>1 DEF Columns, Fields
    <3> QED
      BY <1>3, <2>1, <2>4, <3>2 DEF PlanInv, EditsKeepPlan
  <2> QED
    BY <1>1, <1>5, <2>2, <2>3, <2>4 DEF EditsKeepPlan
<1> QED
  BY <1>6, <1>7, <1>8, <1>9 DEF PlanInv

(* What a check relies on is still there while the event and its seats     *)
(* stand as they were.                                                     *)
LEMMA CheckEditKeeps ==
    ASSUME PlanInv, NEW a \in Editor, NEW e \in Edits, CheckEdit(a, e)
    PROVE  PlanInv'
<1>1. edit' = [b \in Editor |-> IF b = a THEN [open |-> TRUE, input |-> e] ELSE edit[b]]
  BY DEF PlanInv, Shape, CheckEdit
<1>2. plan' = plan /\ seats' = seats /\ crossed' = crossed
  BY DEF CheckEdit
<1>3. edit'[a].input = e /\ \A b \in Editor \ {a} : edit'[b] = edit[b]
  BY <1>1
<1>4. Confirmed' = Confirmed /\ \A x \in Edits : Kept(x)' <=> Kept(x)
  BY <1>2 DEF Confirmed, Kept, FloorKept, Overlay
<1>5. Shape'
  BY <1>1, <1>2, <1>3 DEF PlanInv, Shape, Open
<1>6. NothingBefore'
  BY <1>2 DEF CheckEdit, Admitted, NothingBefore
<1>7. Kept(e)
  BY DEF CheckEdit, Admitted, Schedulable, Kept
<1>8. PendingKept'
  BY <1>2, <1>3, <1>4, <1>7 DEF PlanInv, PendingKept, Open, Shape
<1>9. EditsKeepPlan'
  BY <1>2, <1>4 DEF PlanInv, EditsKeepPlan
<1> QED
  BY <1>5, <1>6, <1>8, <1>9 DEF PlanInv

(* The builder checks the schedule, and nobody has a seat yet.             *)
LEMMA CreateKeeps ==
    ASSUME PlanInv, NEW c \in Plans, CreateTournament(c)
    PROVE  PlanInv'
<1>1. seats' = seats /\ edit' = edit /\ Confirmed = {} /\ \A a \in Editor : ~Open(a)
  BY DEF CreateTournament, PlanInv, NothingBefore
<1>2. Confirmed' = {} /\ \A a \in Editor : ~Open(a)'
  BY <1>1 DEF Confirmed, Open
<1>3. plan'.deadline <= plan'.start
  BY DEF CreateTournament, Acceptable
<1>4. Shape'
  BY <1>1, <1>2 DEF CreateTournament, Shape, PlanInv, Columns, Fields
<1> QED
  BY <1>2, <1>3, <1>4 DEF PlanInv, NothingBefore, PendingKept, EditsKeepPlan

(* Whatever writes beside an open edit is noted, so that nothing remains   *)
(* to be shown of the edits.                                               *)
LEMMA WriteDisturbs ==
    ASSUME Wrote, UNCHANGED edit
    PROVE  PendingKept'
BY DEF Wrote, PendingKept, Open

(* A cancellation gives seats back and other changes leave them.           *)
LEMMA SetStatusKeeps ==
    ASSUME PlanInv, NEW s \in {"REGISTRATION_OPEN", "LIVE", "COMPLETED", "CANCELLED"}, SetStatus(s)
    PROVE  PlanInv'
<1>1. /\ plan' = [f \in Columns |-> IF f = "status" THEN s ELSE plan[f]]
      /\ edit' = edit /\ Wrote
  BY DEF PlanInv, Shape, SetStatus, Columns
<1>2. /\ plan'.status = s /\ plan'.type = plan.type /\ plan'.perTeam = plan.perTeam
      /\ plan'.slots = plan.slots /\ plan'.deadline = plan.deadline
      /\ plan'.start = plan.start
  BY <1>1 DEF Columns, Fields
<1>3. seats' = [n \in Seat |-> seats'[n]] /\ \A n \in Seat : seats'[n] \in {0, seats[n]}
  BY DEF PlanInv, Shape, SetStatus
<1>4. Confirmed' \subseteq Confirmed /\ \A n \in Confirmed' : seats'[n] = seats[n]
  BY <1>3 DEF Confirmed
<1>5. Shape'
  BY <1>1, <1>3 DEF PlanInv, Shape, Open
<1>6. PendingKept' /\ (~crossed' => ~crossed)
  BY <1>1, WriteDisturbs DEF Wrote
<1>7. NothingBefore' /\ EditsKeepPlan'
  BY <1>2, <1>4, <1>6 DEF PlanInv, NothingBefore, EditsKeepPlan
<1> QED
  BY <1>5, <1>6, <1>7 DEF PlanInv

(* A seat is sold below the capacity and with the present team size.       *)
LEMMA SeatStepKeeps ==
    ASSUME PlanInv, NEW s \in Seat, TakeSeat(s) \/ LeaveSeat(s)
    PROVE  PlanInv'
<1>1. plan' = plan /\ edit' = edit /\ Wrote /\ plan.status # "NONE"
  BY DEF TakeSeat, LeaveSeat
<1>2. PICK n : /\ seats' = [seats EXCEPT ![s] = n]
               /\ n = 0 \/ (n = PlayersPerTeamOf(plan.type, plan.perTeam) /\ s <= plan.slots)
  BY DEF TakeSeat, LeaveSeat
<1>3. seats' = [q \in Seat |-> IF q = s THEN n ELSE seats[q]]
  BY <1>2 DEF PlanInv, Shape
<1>4. \A q \in Confirmed' : \/ q = s /\ n # 0 /\ seats'[q] = n
                            \/ q \in Confirmed /\ seats'[q] = seats[q]
  BY <1>3 DEF Confirmed
<1>5. Shape'
  BY <1>1, <1>3 DEF PlanInv, Shape, Open
<1>6. PendingKept' /\ (~crossed' => ~crossed)
  BY <1>1, WriteDisturbs DEF Wrote
<1>7. NothingBefore' /\ EditsKeepPlan'
  BY <1>1, <1>2, <1>4, <1>6 DEF PlanInv, NothingBefore, EditsKeepPlan
<1> QED
  BY <1>5, <1>6, <1>7 DEF PlanInv

(* The invariant does not read the clock.                                  *)
LEMMA PlanUnchangedKeeps ==
    ASSUME PlanInv, UNCHANGED <<plan, seats, edit, crossed>>
    PROVE  PlanInv'
BY DEF PlanInv, Shape, NothingBefore, PendingKept, EditsKeepPlan, Kept, FloorKept, Overlay, Open,
       Confirmed

(* Whatever the plans, edits and numbers of seats and administrators, an   *)
(* edit that nothing was written beside leaves every sold seat below the   *)
(* capacity and of the size it was sold with, and registration closing at  *)
(* or before the start (admin.service.ts:620).                             *)
THEOREM PlanKept == PlanSpec => []EditsKeepPlan
<1>1. PlanInit => PlanInv
  BY PlanInitial
<1>2. ASSUME PlanInv, [PlanNext]_planVars PROVE PlanInv'
  <2>1. ASSUME NEW c \in Plans, CreateTournament(c) PROVE PlanInv'
    BY <1>2, <2>1, CreateKeeps
  <2>2. ASSUME NEW a \in Editor, CommitEdit(a) PROVE PlanInv'
    BY <1>2, <2>2, CommitEditKeeps
  <2>3. ASSUME NEW a \in Editor, NEW e \in Edits, CheckEdit(a, e) PROVE PlanInv'
    BY <1>2, <2>3, CheckEditKeeps
  <2>4. ASSUME NEW s \in {"REGISTRATION_OPEN", "LIVE", "COMPLETED", "CANCELLED"}, SetStatus(s)
        PROVE PlanInv'
    BY <1>2, <2>4, SetStatusKeeps
  <2>5. ASSUME NEW s \in Seat, TakeSeat(s) \/ LeaveSeat(s) PROVE PlanInv'
    BY <1>2, <2>5, SeatStepKeeps
  <2>6. CASE Tick \/ UNCHANGED planVars
    BY <1>2, <2>6, PlanUnchangedKeeps DEF Tick, planVars
  <2> QED
    BY <1>2, <2>1, <2>2, <2>3, <2>4, <2>5, <2>6 DEF PlanNext
<1>3. PlanInv => EditsKeepPlan
  BY DEF PlanInv
<1> QED
  BY <1>1, <1>2, <1>3, PTL DEF PlanSpec

-----------------------------------------------------------------------------
(***************************************************************************)
(* Accounts.  An identity that shows its address is held to one account by *)
(* the unique address: whatever it is linked to has that address.  One     *)
(* that hides it has only its link, so what a sign-in has created and not  *)
(* linked yet must be the only account of the identity.                    *)
(***************************************************************************)
AddressUnique ==
    \A u, v \in DOMAIN users : users[u].email = users[v].email /\ users[u].email # NoEmail => u = v

\* A sign-in that has resolved its account.
Chosen(c) == callback[c].stage \in {"link", "session"}

\* The accounts an identity was led to.
LedTo(i) ==
    {u \in DOMAIN users :
        \/ users[u].origin = i
        \/ links[i] = u
        \/ \E c \in Callback : Who[c] = i /\ Chosen(c) /\ callback[c].user = u
        \/ [identity |-> i, user |-> u] \in sessions}

ShownKept ==
    \A i \in Identity : EmailOf[i] # NoEmail => \A u \in LedTo(i) : users[u].email = EmailOf[i]

\* One sign-in at a time, which finds an account only by its link.
Single(i) ==
    /\ \A c, d \in Callback : Who[c] = i /\ Who[d] = i /\ Going(c) /\ Going(d) => c = d
    /\ \A u, v \in LedTo(i) : u = v
    /\ \A c \in Callback : Who[c] = i =>
          /\ callback[c].stage = "create" => LedTo(i) = {}
          /\ callback[c].stage = "session" => links[i] # 0
    /\ LedTo(i) # {} =>
          links[i] # 0 \/ \E c \in Callback : Who[c] = i /\ callback[c].stage = "link"

HiddenKept == \A i \in Identity \ disturbed : EmailOf[i] = NoEmail => Single(i)

\* A sign-in or a registration that goes on has an account.
ChosenKept ==
    /\ \A c \in Callback : Chosen(c) => callback[c].user # 0
    /\ \A r \in Registration : signup[r].stage = "created" => signup[r].user # 0

AccountInv == AccountTypeOK /\ AddressUnique /\ ShownKept /\ HiddenKept /\ ChosenKept

-----------------------------------------------------------------------------
CallbackRow == [stage : {"new", "create", "link", "session", "done", "refused"},
                user : 0..Len(users)]

SignupRow == [stage : {"new", "checked", "created", "done", "refused"}, user : 0..Len(users)]

LEMMA AccountTypes ==
    ASSUME AccountTypeOK
    PROVE  /\ Len(users) \in Nat /\ DOMAIN users = 1..Len(users)
           /\ \A u \in DOMAIN users : users[u] \in UserRow
           /\ users \in Seq(UserRow)
           /\ links \in [Identity -> 0..Len(users)]
           /\ callback \in [Callback -> CallbackRow] /\ signup \in [Registration -> SignupRow]
           /\ rewards \subseteq DOMAIN users
           /\ sessions \subseteq [identity : Identity, user : DOMAIN users]
           /\ disturbed \subseteq Identity
  BY DEF AccountTypeOK, CallbackRow, SignupRow

\* What a step may do to one sign-in.
Moves(c, stage, user) ==
    /\ callback'[c].stage = stage /\ callback'[c].user = user
    /\ \A d \in Callback \ {c} : callback'[d] = callback[d]

LEMMA StageMoves ==
    ASSUME AccountTypeOK, NEW c \in Callback,
           NEW st \in {"create", "link", "session", "done", "refused"},
           callback' = [callback EXCEPT ![c].stage = st]
    PROVE  callback' \in [Callback -> CallbackRow] /\ Moves(c, st, callback[c].user)
<1>1. callback \in [Callback -> CallbackRow]
  BY AccountTypes
<1>. PICK r \in CallbackRow : r = callback[c]
  BY <1>1
<1>. DEFINE new == [r EXCEPT !.stage = st]
<1>2. new \in CallbackRow /\ new.stage = st /\ new.user = r.user
  BY DEF CallbackRow
<1>3. callback' = [callback EXCEPT ![c] = new]
  BY <1>1
<1>. HIDE DEF new
<1>. QED
  BY <1>1, <1>2, <1>3 DEF Moves

LEMMA RowMoves ==
    ASSUME AccountTypeOK, NEW c \in Callback, NEW st, NEW u,
           callback' = [callback EXCEPT ![c] = [stage |-> st, user |-> u]]
    PROVE  Moves(c, st, u)
<1>1. callback \in [Callback -> CallbackRow]
  BY AccountTypes
<1>. QED
  BY <1>1 DEF Moves

\* A row that nothing refers to yet.
LEMMA RowAdded ==
    ASSUME AccountTypeOK, NEW e \in Email \union {NoEmail}, NEW o \in Identity \union Registration,
           users' = NewUser(e, o)
    PROVE  /\ users' \in Seq(UserRow) /\ Len(users') = Len(users) + 1
           /\ Len(users) + 1 \notin DOMAIN users
           /\ DOMAIN users' = DOMAIN users \union {Len(users) + 1}
           /\ \A u \in DOMAIN users : users'[u] = users[u]
           /\ users'[Len(users) + 1].email = e /\ users'[Len(users) + 1].origin = o
<1>. DEFINE row == [email |-> e, state |-> "ACTIVE", origin |-> o]
<1>1. row \in UserRow /\ row.email = e /\ row.origin = o
  BY DEF UserRow
<1>2. users \in Seq(UserRow) /\ users' = Append(users, row)
  BY AccountTypes DEF NewUser
<1>. HIDE DEF row
<1>3. /\ users' \in Seq(UserRow) /\ Len(users') = Len(users) + 1 /\ Len(users) \in Nat
      /\ DOMAIN users = 1..Len(users) /\ DOMAIN users' = 1..(Len(users) + 1)
      /\ users'[Len(users) + 1] = row /\ \A u \in 1..Len(users) : users'[u] = users[u]
  BY <1>1, <1>2
<1>. QED
  BY <1>1, <1>3

\* The owners and addresses of the rows stay.
SameRows ==
    /\ DOMAIN users' = DOMAIN users
    /\ \A u \in DOMAIN users : users'[u].email = users[u].email /\ users'[u].origin = users[u].origin

LEMMA AddressesStay ==
    ASSUME AccountInv, SameRows, \A i \in Identity : LedTo(i)' \subseteq LedTo(i)
    PROVE  AddressUnique' /\ ShownKept'
<1>1. AddressUnique'
  BY DEF AccountInv, AddressUnique, SameRows
<1>2. ShownKept'
  <2>. SUFFICES ASSUME NEW i \in Identity, EmailOf[i] # NoEmail, NEW u \in LedTo(i)'
                PROVE  users'[u].email = EmailOf[i]
    BY DEF ShownKept
  <2>1. u \in LedTo(i) /\ u \in DOMAIN users
    BY DEF LedTo
  <2>. QED
    BY <2>1 DEF AccountInv, ShownKept, SameRows
<1>. QED
  BY <1>1, <1>2

\* An identity that a step does not touch.
LEMMA SingleStays ==
    ASSUME NEW i \in Identity, Single(i), links'[i] = links[i], LedTo(i)' = LedTo(i),
           \A c \in Callback : Who[c] = i => callback'[c] = callback[c]
    PROVE  Single(i)'
<1>1. \A c \in Callback : Who[c] = i => (Going(c)' <=> Going(c))
  BY DEF Going
<1>. QED
  BY <1>1 DEF Single

\* Steps that touch registrations alone.
LEMMA SignupStep ==
    ASSUME AccountInv, AccountTypeOK', ChosenKept',
           UNCHANGED <<users, links, callback, sessions, disturbed>>
    PROVE  AccountInv'
<1>1. \A i \in Identity : LedTo(i)' = LedTo(i)
  BY DEF LedTo, Chosen
<1>2. AddressUnique' /\ ShownKept'
  BY <1>1, AddressesStay DEF SameRows
<1>3. HiddenKept'
  BY <1>1, SingleStays DEF AccountInv, HiddenKept
<1>. QED
  BY <1>2, <1>3 DEF AccountInv

LEMMA SignupMoves ==
    ASSUME AccountInv, NEW r \in Registration, NEW st \in {"checked", "done", "refused"},
           signup' = [signup EXCEPT ![r].stage = st], callback' = callback
    PROVE  signup' \in [Registration -> SignupRow] /\ ChosenKept'
<1>1. signup \in [Registration -> SignupRow]
  BY AccountTypes DEF AccountInv
<1>. PICK x \in SignupRow : x = signup[r]
  BY <1>1
<1>. DEFINE new == [x EXCEPT !.stage = st]
<1>2. new \in SignupRow /\ new.stage = st
  BY DEF SignupRow
<1>3. signup' = [signup EXCEPT ![r] = new]
  BY <1>1
<1>. HIDE DEF new
<1>4. signup' \in [Registration -> SignupRow]
  BY <1>1, <1>2, <1>3
<1>5. ChosenKept'
  BY <1>1, <1>2, <1>3 DEF AccountInv, ChosenKept, Chosen
<1>. QED
  BY <1>4, <1>5

-----------------------------------------------------------------------------
\* Rows are only added.
RowsGrow ==
    /\ DOMAIN users \subseteq DOMAIN users' /\ 0 \notin DOMAIN users'
    /\ \A u \in DOMAIN users : users'[u].email = users[u].email /\ users'[u].origin = users[u].origin

\* Nothing a step does concerns identity i.
Spared(i) ==
    /\ links'[i] = links[i]
    /\ \A c \in Callback : Who[c] = i => callback'[c] = callback[c]
    /\ \A u \in DOMAIN users' \ DOMAIN users : users'[u].origin # i
    /\ \A u \in DOMAIN users' :
          [identity |-> i, user |-> u] \in sessions' <=> [identity |-> i, user |-> u] \in sessions

LEMMA LedElsewhere ==
    ASSUME AccountTypeOK, RowsGrow, NEW i \in Identity, Spared(i)
    PROVE  LedTo(i)' = LedTo(i)
<1>1. /\ links[i] \in 0..Len(users) /\ DOMAIN users = 1..Len(users) /\ Len(users) \in Nat
      /\ \A c \in Callback : callback[c].user \in 0..Len(users)
      /\ \A u : [identity |-> i, user |-> u] \in sessions => u \in DOMAIN users
  <2>1. \A c \in Callback : callback[c] \in CallbackRow
    BY AccountTypes
  <2>2. \A c \in Callback : callback[c].user \in 0..Len(users)
    BY <2>1 DEF CallbackRow
  <2>3. ASSUME NEW u, [identity |-> i, user |-> u] \in sessions PROVE u \in DOMAIN users
    <3>1. PICK s \in [identity : Identity, user : DOMAIN users] : s = [identity |-> i, user |-> u]
      BY <2>3, AccountTypes
    <3>. QED
      BY <3>1
  <2>. QED
    BY <2>2, <2>3, AccountTypes
<1>2. ASSUME NEW u, u \in LedTo(i)' PROVE u \in LedTo(i)
  <2>1. u \in DOMAIN users' /\ u # 0
    BY <1>2 DEF LedTo, RowsGrow
  <2>2. CASE links'[i] = u
    BY <1>1, <2>1, <2>2 DEF LedTo, Spared
  <2>3. CASE \E c \in Callback : Who[c] = i /\ Chosen(c)' /\ callback'[c].user = u
    <3>1. PICK c \in Callback : Who[c] = i /\ Chosen(c) /\ callback[c].user = u
      BY <2>3 DEF Chosen, Spared
    <3>. QED
      BY <1>1, <2>1, <3>1 DEF LedTo
  <2>4. CASE [identity |-> i, user |-> u] \in sessions'
    BY <1>1, <2>1, <2>4 DEF LedTo, Spared
  <2>5. CASE users'[u].origin = i
    BY <2>1, <2>5 DEF LedTo, Spared, RowsGrow
  <2>. QED
    BY <1>2, <2>2, <2>3, <2>4, <2>5 DEF LedTo
<1>3. ASSUME NEW u, u \in LedTo(i) PROVE u \in LedTo(i)'
  <2>1. u \in DOMAIN users /\ u \in DOMAIN users' /\ users'[u].origin = users[u].origin
    BY <1>3 DEF LedTo, RowsGrow
  <2>2. CASE \E c \in Callback : Who[c] = i /\ Chosen(c) /\ callback[c].user = u
    BY <2>1, <2>2 DEF LedTo, Chosen, Spared
  <2>3. CASE \/ users[u].origin = i \/ links[i] = u
             \/ [identity |-> i, user |-> u] \in sessions
    BY <2>1, <2>3 DEF LedTo, Spared
  <2>. QED
    BY <1>3, <2>2, <2>3 DEF LedTo
<1>. QED
  BY <1>2, <1>3

\* A step about one identity at most.
LEMMA OneIdentity ==
    ASSUME AccountInv, AccountTypeOK', AddressUnique', ChosenKept', RowsGrow,
           disturbed \subseteq disturbed', NEW j \in Identity,
           \A i \in Identity \ {j} : Spared(i),
           EmailOf[j] # NoEmail => \A u \in LedTo(j)' : users'[u].email = EmailOf[j],
           (EmailOf[j] = NoEmail /\ j \notin disturbed') => Single(j)'
    PROVE  AccountInv'
<1>1. \A i \in Identity \ {j} : LedTo(i)' = LedTo(i)
  BY LedElsewhere DEF AccountInv
<1>2. ShownKept'
  <2>. SUFFICES ASSUME NEW i \in Identity, EmailOf[i] # NoEmail, NEW u \in LedTo(i)'
                PROVE  users'[u].email = EmailOf[i]
    BY DEF ShownKept
  <2>1. CASE i = j
    BY <2>1
  <2>2. CASE i # j
    <3>1. u \in LedTo(i)
      BY <1>1, <2>2
    <3>2. u \in DOMAIN users /\ users[u].email = EmailOf[i]
      BY <3>1 DEF AccountInv, ShownKept, LedTo
    <3>. QED
      BY <3>2 DEF RowsGrow
  <2>. QED
    BY <2>1, <2>2
<1>3. HiddenKept'
  <2>. SUFFICES ASSUME NEW i \in Identity, i \notin disturbed', EmailOf[i] = NoEmail
                PROVE  Single(i)'
    BY DEF HiddenKept
  <2>1. CASE i = j
    BY <2>1
  <2>2. CASE i # j
    <3>1. Single(i) /\ Spared(i)
      BY <2>2 DEF AccountInv, HiddenKept
    <3>. QED
      BY <1>1, <2>2, <3>1, SingleStays DEF Spared
  <2>. QED
    BY <2>1, <2>2
<1>. QED
  BY <1>2, <1>3 DEF AccountInv

\* A step about a sign-in spares the other identities.
LEMMA OthersSpared ==
    ASSUME NEW c \in Callback, NEW st, NEW x, Moves(c, st, x), NEW i \in Identity, i # Who[c],
           links'[i] = links[i],
           \A u \in DOMAIN users' \ DOMAIN users : users'[u].origin # i,
           \A u \in DOMAIN users' :
              [identity |-> i, user |-> u] \in sessions' <=> [identity |-> i, user |-> u] \in sessions
    PROVE  Spared(i)
  BY DEF Moves, Spared

LEMMA WhoIs == \A c \in Callback : Who[c] \in Identity
  BY AccountAssumption

LEMMA RowsStay ==
    ASSUME AccountTypeOK, users' = users
    PROVE  RowsGrow
  BY AccountTypes DEF RowsGrow

\* The address of a new row is free.
LEMMA AddressAdded ==
    ASSUME AccountInv, NEW e \in Email \union {NoEmail}, NEW o \in Identity \union Registration,
           users' = NewUser(e, o), ~EmailTaken(e)
    PROVE  AddressUnique' /\ RowsGrow
<1>1. /\ DOMAIN users' = DOMAIN users \union {Len(users) + 1}
      /\ \A u \in DOMAIN users : users'[u] = users[u]
      /\ users'[Len(users) + 1].email = e
  BY RowAdded DEF AccountInv
<1>2. 0 \notin DOMAIN users'
  BY <1>1, AccountTypes DEF AccountInv
<1>3. AddressUnique'
  BY <1>1 DEF AccountInv, AddressUnique, EmailTaken
<1>. QED
  BY <1>1, <1>2, <1>3 DEF RowsGrow

-----------------------------------------------------------------------------
LEMMA RegisterStep ==
    ASSUME AccountInv, NEW r \in Registration,
           \/ CheckAddress(r) \/ CreateReward(r) \/ RegistrationFails(r)
           \/ CreateUser(r) /\ EmailTaken(Address[r])
    PROVE  AccountInv'
<1>1. UNCHANGED <<users, links, callback, sessions, disturbed>>
  BY DEF CheckAddress, CreateReward, RegistrationFails, CreateUser
<1>2. PICK st \in {"checked", "done", "refused"} : signup' = [signup EXCEPT ![r].stage = st]
  BY DEF CheckAddress, CreateReward, RegistrationFails, CreateUser
<1>3. signup' \in [Registration -> SignupRow] /\ ChosenKept'
  BY <1>1, <1>2, SignupMoves
<1>4. rewards' \subseteq DOMAIN users
  <2>1. rewards \subseteq DOMAIN users
    BY AccountTypes DEF AccountInv
  <2>2. CASE CreateReward(r)
    <3>1. /\ signup[r] \in SignupRow /\ signup[r].user # 0
          /\ DOMAIN users = 1..Len(users) /\ Len(users) \in Nat
      BY <2>2, AccountTypes DEF AccountInv, CreateReward, ChosenKept
    <3>2. signup[r].user \in DOMAIN users
      BY <3>1 DEF SignupRow
    <3>. QED
      BY <2>1, <2>2, <3>2 DEF CreateReward
  <2>3. CASE ~CreateReward(r)
    BY <2>1, <2>3 DEF CheckAddress, RegistrationFails, CreateUser
  <2>. QED
    BY <2>2, <2>3
<1>5. AccountTypeOK'
  BY <1>1, <1>3, <1>4 DEF AccountInv, AccountTypeOK, SignupRow
<1>. QED
  BY <1>1, <1>3, <1>5, SignupStep

\* Numbers of users stay those of a row as the table grows.
LEMMA NumbersStay ==
    ASSUME AccountTypeOK, users' \in Seq(UserRow), Len(users') = Len(users) + 1
    PROVE  /\ links \in [Identity -> 0..Len(users')]
           /\ \A c \in Callback : callback[c] \in CallbackRow'
           /\ \A r \in Registration : signup[r] \in SignupRow'
           /\ rewards \subseteq DOMAIN users'
           /\ sessions \subseteq [identity : Identity, user : DOMAIN users']
<1>1. /\ Len(users) \in Nat /\ Len(users') = Len(users) + 1
      /\ DOMAIN users = 1..Len(users) /\ DOMAIN users' = 1..(Len(users) + 1)
  BY AccountTypes
<1>2. 0..Len(users) \subseteq 0..Len(users') /\ DOMAIN users \subseteq DOMAIN users'
  BY <1>1
<1>3. ASSUME NEW c \in Callback PROVE callback[c] \in CallbackRow'
  <2>1. callback[c] \in CallbackRow
    BY AccountTypes
  <2>. QED
    BY <1>2, <2>1 DEF CallbackRow
<1>4. ASSUME NEW r \in Registration PROVE signup[r] \in SignupRow'
  <2>1. signup[r] \in SignupRow
    BY AccountTypes
  <2>. QED
    BY <1>2, <2>1 DEF SignupRow
<1>5. ASSUME NEW s \in sessions PROVE s \in [identity : Identity, user : DOMAIN users']
  <2>1. s \in [identity : Identity, user : DOMAIN users]
    BY AccountTypes
  <2>. QED
    BY <1>2, <2>1
<1>6. links \in [Identity -> 0..Len(users')] /\ rewards \subseteq DOMAIN users'
  BY <1>2, AccountTypes
<1>. QED
  BY <1>3, <1>4, <1>5, <1>6

LEMMA CreateUserStep ==
    ASSUME AccountInv, NEW r \in Registration, CreateUser(r), ~EmailTaken(Address[r])
    PROVE  AccountInv'
<1>1. /\ users' = NewUser(Address[r], r)
      /\ signup' = [signup EXCEPT ![r] = [stage |-> "created", user |-> Len(users')]]
      /\ UNCHANGED <<links, callback, rewards, sessions, disturbed>>
  BY DEF CreateUser
<1>2. Address[r] \in Email \union {NoEmail} /\ r \notin Identity
  BY AccountAssumption
<1>3. AddressUnique' /\ RowsGrow
  BY <1>1, <1>2, AddressAdded
<1>4. /\ users' \in Seq(UserRow) /\ Len(users') = Len(users) + 1 /\ Len(users) \in Nat
      /\ DOMAIN users' = DOMAIN users \union {Len(users) + 1}
      /\ users'[Len(users) + 1].origin = r
  BY <1>1, <1>2, RowAdded, AccountTypes DEF AccountInv
<1>. DEFINE new == [stage |-> "created", user |-> Len(users')]
<1>5. new \in SignupRow' /\ new.user # 0
  BY <1>4 DEF SignupRow
<1>6. signup \in [Registration -> SignupRow] /\ signup' = [signup EXCEPT ![r] = new]
  BY <1>1, AccountTypes DEF AccountInv
<1>. HIDE DEF new
<1>7. AccountTypeOK'
  <2>1. /\ links' \in [Identity -> 0..Len(users')]
        /\ \A c \in Callback : callback[c] \in CallbackRow'
        /\ \A x \in Registration : signup[x] \in SignupRow'
        /\ rewards' \subseteq DOMAIN users'
        /\ sessions' \subseteq [identity : Identity, user : DOMAIN users']
    BY <1>1, <1>4, NumbersStay DEF AccountInv
  <2>2. signup' \in [Registration -> SignupRow'] /\ callback' \in [Callback -> CallbackRow']
    BY <1>1, <1>5, <1>6, <2>1, AccountTypes DEF AccountInv
  <2>. QED
    BY <1>1, <1>4, <2>1, <2>2 DEF AccountInv, AccountTypeOK, CallbackRow, SignupRow
<1>8. ChosenKept'
  BY <1>1, <1>5, <1>6 DEF AccountInv, ChosenKept, Chosen
<1>9. \A i \in Identity : Spared(i)
  BY <1>1, <1>2, <1>4 DEF Spared
<1>10. \A i \in Identity : LedTo(i)' = LedTo(i)
  BY <1>3, <1>9, LedElsewhere DEF AccountInv
<1>11. ShownKept'
  <2>. SUFFICES ASSUME NEW i \in Identity, EmailOf[i] # NoEmail, NEW u \in LedTo(i)'
                PROVE  users'[u].email = EmailOf[i]
    BY DEF ShownKept
  <2>1. u \in DOMAIN users /\ users[u].email = EmailOf[i]
    BY <1>10 DEF AccountInv, ShownKept, LedTo
  <2>. QED
    BY <1>3, <2>1 DEF RowsGrow
<1>12. HiddenKept'
  BY <1>1, <1>10, SingleStays DEF AccountInv, HiddenKept
<1>. QED
  BY <1>3, <1>7, <1>8, <1>11, <1>12 DEF AccountInv

LEMMA StateStep ==
    ASSUME AccountInv, NEW u \in DOMAIN users, NEW s \in {"ACTIVE", "SUSPENDED", "DELETED"},
           SetUserState(u, s)
    PROVE  AccountInv'
<1>1. /\ users' = [users EXCEPT ![u].state = s]
      /\ UNCHANGED <<links, callback, signup, rewards, sessions, disturbed>>
  BY DEF SetUserState
<1>2. /\ users \in Seq(UserRow) /\ Len(users) \in Nat /\ DOMAIN users = 1..Len(users)
      /\ users[u] \in UserRow
  BY AccountTypes DEF AccountInv
<1>. DEFINE new == [users[u] EXCEPT !.state = s]
<1>3. new \in UserRow /\ new.email = users[u].email /\ new.origin = users[u].origin
  BY <1>2 DEF UserRow
<1>4. users' = [users EXCEPT ![u] = new]
  BY <1>1, <1>2
<1>. HIDE DEF new
<1>5. users' \in Seq(UserRow) /\ Len(users') = Len(users) /\ SameRows
  BY <1>2, <1>3, <1>4 DEF SameRows
<1>6. AccountTypeOK'
  BY <1>1, <1>5 DEF AccountInv, AccountTypeOK, SameRows
<1>7. \A i \in Identity : LedTo(i)' = LedTo(i)
  BY <1>1, <1>5 DEF LedTo, SameRows, Chosen
<1>8. AddressUnique' /\ ShownKept'
  BY <1>5, <1>7, AddressesStay
<1>9. HiddenKept'
  BY <1>1, <1>7, SingleStays DEF AccountInv, HiddenKept
<1>. QED
  BY <1>1, <1>6, <1>8, <1>9 DEF AccountInv, ChosenKept, Chosen

-----------------------------------------------------------------------------
\* What a step of a sign-in adds to the accounts of its identity.
LEMMA LedMore ==
    ASSUME AccountTypeOK, users' = users, NEW c \in Callback, NEW st, NEW x, Moves(c, st, x),
           NEW i \in Identity, i = Who[c], NEW T,
           links'[i] \in DOMAIN users => links'[i] \in LedTo(i) \union T,
           st \in {"link", "session"} => x \in LedTo(i) \union T,
           \A u : [identity |-> i, user |-> u] \in sessions' =>
              [identity |-> i, user |-> u] \in sessions \/ u \in LedTo(i) \union T
    PROVE  LedTo(i)' \subseteq LedTo(i) \union T
<1>. SUFFICES ASSUME NEW u \in LedTo(i)' PROVE u \in LedTo(i) \union T
  OBVIOUS
<1>1. u \in DOMAIN users
  BY DEF LedTo
<1>2. CASE users'[u].origin = i
  BY <1>1, <1>2 DEF LedTo
<1>3. CASE links'[i] = u
  BY <1>1, <1>3
<1>4. CASE [identity |-> i, user |-> u] \in sessions'
  BY <1>1, <1>4 DEF LedTo
<1>5. CASE \E d \in Callback : Who[d] = i /\ Chosen(d)' /\ callback'[d].user = u
  <2>1. PICK d \in Callback : Who[d] = i /\ Chosen(d)' /\ callback'[d].user = u
    BY <1>5
  <2>2. CASE d = c
    BY <2>1, <2>2 DEF Chosen, Moves
  <2>3. CASE d # c
    <3>1. Chosen(d) /\ callback[d].user = u
      BY <2>1, <2>3 DEF Chosen, Moves
    <3>. QED
      BY <1>1, <2>1, <3>1 DEF LedTo
  <2>. QED
    BY <2>2, <2>3
<1>. QED
  BY <1>2, <1>3, <1>4, <1>5 DEF LedTo

LEMMA CallbackTyped ==
    ASSUME AccountTypeOK, NEW c \in Callback,
           NEW st \in {"new", "create", "link", "session", "done", "refused"},
           NEW u \in 0..Len(users), callback' = [callback EXCEPT ![c] = [stage |-> st, user |-> u]]
    PROVE  callback' \in [Callback -> CallbackRow]
<1>. DEFINE new == [stage |-> st, user |-> u]
<1>1. new \in CallbackRow
  BY DEF CallbackRow
<1>. HIDE DEF new
<1>. QED
  BY <1>1, AccountTypes DEF new

LEMMA ChosenStays ==
    ASSUME AccountInv, NEW c \in Callback, NEW st, NEW x, Moves(c, st, x), signup' = signup,
           st \in {"link", "session"} => x # 0
    PROVE  ChosenKept'
<1>1. ASSUME NEW d \in Callback, Chosen(d)' PROVE callback'[d].user # 0
  <2>1. CASE d = c
    BY <1>1, <2>1 DEF Chosen, Moves
  <2>2. CASE d # c
    BY <1>1, <2>2 DEF Chosen, Moves, AccountInv, ChosenKept
  <2>. QED
    BY <2>1, <2>2
<1>. QED
  BY <1>1 DEF AccountInv, ChosenKept

\* A sign-in that has chosen an account has chosen one of its identity's.
LEMMA ChosenLed ==
    ASSUME AccountInv, NEW c \in Callback, Chosen(c)
    PROVE  callback[c].user \in DOMAIN users /\ callback[c].user \in LedTo(Who[c])
<1>1. callback[c] \in CallbackRow /\ callback[c].user # 0
  BY AccountTypes DEF AccountInv, ChosenKept
<1>2. callback[c].user \in DOMAIN users
  BY <1>1, AccountTypes DEF AccountInv, CallbackRow
<1>. QED
  BY <1>2 DEF LedTo

LEMMA ResolveStep == ASSUME AccountInv, NEW c \in Callback, Resolve(c) PROVE AccountInv'
<1>. PICK i \in Identity : i = Who[c]
  BY WhoIs
<1>1. /\ callback[c].stage = "new" /\ UNCHANGED <<users, links, signup, rewards, sessions>>
      /\ disturbed' = IF \E d \in Callback : Who[d] = i /\ Going(d)
                      THEN disturbed \union {i} ELSE disturbed
  BY DEF Resolve
<1>2. AccountTypeOK /\ callback[c] \in CallbackRow /\ callback \in [Callback -> CallbackRow]
  BY AccountTypes DEF AccountInv
<1>3. RowsGrow /\ AddressUnique'
  BY <1>1, <1>2, RowsStay DEF AccountInv, AddressUnique
<1>4. \A u \in Found(i) : /\ u \in DOMAIN users /\ u # 0
                          /\ u \in LedTo(i) \/ (EmailOf[i] # NoEmail /\ users[u].email = EmailOf[i])
  <2>1. links[i] \in 0..Len(users) /\ DOMAIN users = 1..Len(users) /\ Len(users) \in Nat
    BY <1>2, AccountTypes
  <2>2. CASE links[i] # 0
    <3>1. Found(i) = {links[i]} /\ links[i] \in DOMAIN users
      BY <2>1, <2>2 DEF Found, LinkedTo
    <3>2. links[i] \in LedTo(i)
      BY <3>1 DEF LedTo
    <3>. TAKE u \in Found(i)
    <3>3. u = links[i]
      BY <3>1
    <3>. QED
      BY <2>2, <3>1, <3>2, <3>3
  <2>3. CASE links[i] = 0
    BY <2>1, <2>3 DEF Found, LinkedTo
  <2>. QED
    BY <2>2, <2>3
<1>5. PICK st \in {"create", "link", "refused"}, x \in 0..Len(users) :
          /\ callback' \in [Callback -> CallbackRow] /\ Moves(c, st, x)
          /\ st = "create" => Found(i) = {}
          /\ st = "link" => x \in Found(i)
  <2>1. CASE Found(i) = {} /\ callback' = [callback EXCEPT ![c].stage = "create"]
    <3>1. callback' \in [Callback -> CallbackRow] /\ Moves(c, "create", callback[c].user)
      BY <1>2, <2>1, StageMoves
    <3>2. callback[c].user \in 0..Len(users)
      BY <1>2 DEF CallbackRow
    <3>. QED
      BY <2>1, <3>1, <3>2
  <2>2. ASSUME NEW u \in Found(i), callback' = [callback EXCEPT ![c] = [stage |-> "link", user |-> u]]
        PROVE  callback' \in [Callback -> CallbackRow] /\ Moves(c, "link", u) /\ u \in 0..Len(users)
    <3>1. u \in 0..Len(users)
      BY <1>2, <1>4, AccountTypes
    <3>. QED
      BY <1>2, <2>2, <3>1, CallbackTyped, RowMoves
  <2>3. CASE callback' = [callback EXCEPT ![c] = [stage |-> "refused", user |-> 0]]
    <3>1. 0 \in 0..Len(users)
      BY <1>2, AccountTypes
    <3>. QED
      BY <1>2, <2>3, <3>1, CallbackTyped, RowMoves
  <2>4. \/ Found(i) = {} /\ callback' = [callback EXCEPT ![c].stage = "create"]
        \/ \E u \in Found(i) : callback' = [callback EXCEPT ![c] = [stage |-> "link", user |-> u]]
        \/ callback' = [callback EXCEPT ![c] = [stage |-> "refused", user |-> 0]]
    BY DEF Resolve
  <2>. QED
    BY <2>1, <2>2, <2>3, <2>4
<1>6. AccountTypeOK'
  BY <1>1, <1>2, <1>5 DEF AccountTypeOK, CallbackRow
<1>7. ChosenKept'
  BY <1>1, <1>4, <1>5, ChosenStays
<1>8. \A j \in Identity \ {i} : Spared(j)
  BY <1>1, <1>5, OthersSpared
<1>9. LedTo(i)' \subseteq LedTo(i) \union (IF st = "link" THEN {x} ELSE {})
  <2>. DEFINE T == IF st = "link" THEN {x} ELSE {}
  <2>1. links'[i] \in DOMAIN users => links'[i] \in LedTo(i)
    BY <1>1 DEF LedTo
  <2>2. st \in {"link", "session"} => x \in LedTo(i) \union T
    OBVIOUS
  <2>. HIDE DEF T
  <2>3. LedTo(i)' \subseteq LedTo(i) \union T
    BY <1>1, <1>2, <1>5, <2>1, <2>2, LedMore
  <2>. QED
    BY <2>3 DEF T
<1>10. ASSUME EmailOf[i] # NoEmail, NEW u \in LedTo(i)' PROVE users'[u].email = EmailOf[i]
  <2>1. \A w \in LedTo(i) : users[w].email = EmailOf[i]
    BY <1>10 DEF AccountInv, ShownKept
  <2>. QED
    BY <1>1, <1>4, <1>5, <1>9, <1>10, <2>1
<1>11. ASSUME EmailOf[i] = NoEmail, i \notin disturbed' PROVE Single(i)'
  <2>1. i \notin disturbed /\ \A d \in Callback : Who[d] = i => ~Going(d)
    BY <1>1, <1>11
  <2>2. Single(i)
    BY <1>11, <2>1 DEF AccountInv, HiddenKept
  <2>3. LedTo(i)' \subseteq LedTo(i)
    BY <1>4, <1>5, <1>9, <1>11
  <2>4. \A d \in Callback : Who[d] = i /\ Going(d)' => d = c
    BY <1>5, <2>1 DEF Moves, Going
  <2>5. LedTo(i) # {} => links[i] # 0 /\ links[i] \in LedTo(i)
    <3>1. LedTo(i) # {} => links[i] # 0
      BY <2>1, <2>2 DEF Single, Going
    <3>2. links[i] # 0 => links[i] \in LedTo(i)
      BY <1>2, AccountTypes DEF LedTo
    <3>. QED
      BY <3>1, <3>2
  <2>6. st = "create" => LedTo(i) = {}
    BY <1>5, <2>5 DEF Found, LinkedTo
  <2>7. \A d \in Callback : Who[d] = i /\ callback'[d].stage = "session" => links'[i] # 0
    BY <1>5, <2>4 DEF Moves, Going
  <2>8. \A d \in Callback : Who[d] = i /\ callback'[d].stage = "create" => LedTo(i)' = {}
    BY <1>5, <2>3, <2>4, <2>6 DEF Moves, Going
  <2>9. \A u, v \in LedTo(i)' : u = v
    BY <2>2, <2>3 DEF Single
  <2>10. LedTo(i)' # {} => links'[i] # 0
    BY <1>1, <2>3, <2>5
  <2>11. \A d, e \in Callback : Who[d] = i /\ Who[e] = i /\ Going(d)' /\ Going(e)' => d = e
    BY <2>4
  <2>. QED
    BY <2>7, <2>8, <2>9, <2>10, <2>11 DEF Single
<1>. QED
  BY <1>1, <1>3, <1>6, <1>7, <1>8, <1>10, <1>11, OneIdentity

LEMMA CreateSocialStep == ASSUME AccountInv, NEW c \in Callback, CreateSocialUser(c) PROVE AccountInv'
<1>. PICK i \in Identity : i = Who[c]
  BY WhoIs
<1>1. /\ callback[c].stage = "create" /\ UNCHANGED <<links, signup, rewards, sessions, disturbed>>
      /\ Going(c) /\ AccountTypeOK /\ callback[c] \in CallbackRow
      /\ EmailOf[i] \in Email \union {NoEmail}
  BY AccountTypes, AccountAssumption DEF CreateSocialUser, Going, AccountInv
<1>2. CASE EmailTaken(EmailOf[i])
  <2>1. users' = users /\ callback' = [callback EXCEPT ![c].stage = "refused"]
    BY <1>2 DEF CreateSocialUser
  <2>2. /\ callback' \in [Callback -> CallbackRow] /\ Moves(c, "refused", callback[c].user)
    BY <1>1, <2>1, StageMoves
  <2>3. RowsGrow /\ AddressUnique' /\ AccountTypeOK'
    BY <1>1, <2>1, <2>2, RowsStay DEF AccountInv, AddressUnique, AccountTypeOK, CallbackRow
  <2>4. ChosenKept'
    BY <1>1, <2>2, ChosenStays
  <2>5. \A j \in Identity \ {i} : Spared(j)
    BY <1>1, <2>1, <2>2, OthersSpared
  <2>6. LedTo(i)' \subseteq LedTo(i)
    <3>1. links'[i] \in DOMAIN users => links'[i] \in LedTo(i)
      BY <1>1 DEF LedTo
    <3>. QED
      BY <1>1, <2>1, <2>2, <3>1, LedMore
  <2>7. EmailOf[i] # NoEmail => \A u \in LedTo(i)' : users'[u].email = EmailOf[i]
    BY <2>1, <2>6 DEF AccountInv, ShownKept
  <2>8. EmailOf[i] # NoEmail
    BY <1>2 DEF EmailTaken
  <2>. QED
    BY <1>1, <2>3, <2>4, <2>5, <2>7, <2>8, OneIdentity
<1>3. CASE ~EmailTaken(EmailOf[i])
  <2>. DEFINE n == Len(users) + 1
              new == [stage |-> "link", user |-> Len(users')]
  <2>1. users' = NewUser(EmailOf[i], i) /\ callback' = [callback EXCEPT ![c] = new]
    BY <1>3 DEF CreateSocialUser
  <2>2. /\ users' \in Seq(UserRow) /\ Len(users') = n /\ Len(users) \in Nat
        /\ n \notin DOMAIN users /\ DOMAIN users' = DOMAIN users \union {n}
        /\ users'[n].origin = i /\ users'[n].email = EmailOf[i]
    BY <1>1, <2>1, RowAdded, AccountTypes
  <2>3. AddressUnique' /\ RowsGrow
    BY <1>1, <1>3, <2>1, AddressAdded
  <2>4. Moves(c, "link", n)
    BY <1>1, <2>1, <2>2, RowMoves
  <2>5. AccountTypeOK'
    <3>1. new \in CallbackRow'
      BY <2>2 DEF CallbackRow
    <3>. HIDE DEF new
    <3>2. /\ links' \in [Identity -> 0..Len(users')]
          /\ \A d \in Callback : callback[d] \in CallbackRow'
          /\ \A x \in Registration : signup[x] \in SignupRow'
          /\ rewards' \subseteq DOMAIN users'
          /\ sessions' \subseteq [identity : Identity, user : DOMAIN users']
      BY <1>1, <2>2, NumbersStay
    <3>3. callback' \in [Callback -> CallbackRow'] /\ signup' \in [Registration -> SignupRow']
      BY <1>1, <2>1, <3>1, <3>2, AccountTypes
    <3>. QED
      BY <1>1, <2>2, <3>2, <3>3 DEF AccountTypeOK, CallbackRow, SignupRow
  <2>. HIDE DEF new
  <2>6. ChosenKept'
    BY <1>1, <2>2, <2>4, ChosenStays
  <2>7. \A j \in Identity \ {i} : Spared(j)
    BY <1>1, <2>2, <2>4, OthersSpared
  <2>8. LedTo(i)' \subseteq LedTo(i) \union {n}
    <3>. SUFFICES ASSUME NEW u \in LedTo(i)', u # n PROVE u \in LedTo(i)
      OBVIOUS
    <3>1. u \in DOMAIN users /\ users'[u].origin = users[u].origin
      BY <2>2, <2>3 DEF LedTo, RowsGrow
    <3>2. CASE \E d \in Callback : Who[d] = i /\ Chosen(d)' /\ callback'[d].user = u
      <4>1. PICK d \in Callback : Who[d] = i /\ Chosen(d)' /\ callback'[d].user = u
        BY <3>2
      <4>2. d # c
        BY <2>4, <4>1 DEF Moves
      <4>3. Chosen(d) /\ callback[d].user = u
        BY <2>4, <4>1, <4>2 DEF Moves, Chosen
      <4>. QED
        BY <3>1, <4>1, <4>3 DEF LedTo
    <3>3. CASE \/ users'[u].origin = i \/ links'[i] = u \/ [identity |-> i, user |-> u] \in sessions'
      BY <1>1, <3>1, <3>3 DEF LedTo
    <3>. QED
      BY <3>2, <3>3 DEF LedTo
  <2>9. ASSUME EmailOf[i] # NoEmail, NEW u \in LedTo(i)' PROVE users'[u].email = EmailOf[i]
    <3>1. CASE u = n
      BY <2>2, <3>1
    <3>2. CASE u # n
      <4>1. u \in LedTo(i) /\ u \in DOMAIN users
        BY <2>8, <3>2 DEF LedTo
      <4>2. users[u].email = EmailOf[i]
        BY <2>9, <4>1 DEF AccountInv, ShownKept
      <4>. QED
        BY <2>3, <4>1, <4>2 DEF RowsGrow
    <3>. QED
      BY <3>1, <3>2
  <2>10. ASSUME EmailOf[i] = NoEmail, i \notin disturbed' PROVE Single(i)'
    <3>1. Single(i)
      BY <1>1, <2>10 DEF AccountInv, HiddenKept
    <3>2. LedTo(i)' \subseteq {n}
      BY <1>1, <2>8, <3>1 DEF Single
    <3>3. \A d \in Callback : Who[d] = i /\ Going(d)' => d = c
      <4>1. \A d \in Callback : Who[d] = i /\ Going(d) => d = c
        BY <1>1, <3>1 DEF Single
      <4>. QED
        BY <2>4, <4>1 DEF Moves, Going
    <3>4. \A d \in Callback : Who[d] = i =>
              callback'[d].stage # "create" /\ callback'[d].stage # "session"
      BY <2>4, <3>3 DEF Moves, Going
    <3>5. callback'[c].stage = "link"
      BY <2>4 DEF Moves
    <3>. HIDE DEF n
    <3>6. \A u, v \in LedTo(i)' : u = v
      BY <3>2
    <3>7. \A d, e \in Callback : Who[d] = i /\ Who[e] = i /\ Going(d)' /\ Going(e)' => d = e
      BY <3>3
    <3>. QED
      BY <3>4, <3>5, <3>6, <3>7 DEF Single
  <2>. QED
    BY <1>1, <2>3, <2>5, <2>6, <2>7, <2>9, <2>10, OneIdentity
<1>. QED
  BY <1>2, <1>3

\* The later steps of a sign-in: the rows of users stay and its identity is led no further.
LEMMA LaterStep ==
    ASSUME AccountInv, NEW c \in Callback, Going(c),
           NEW st \in {"session", "done", "refused"}, callback' = [callback EXCEPT ![c].stage = st],
           UNCHANGED <<users, signup, rewards>>,
           links' \in [Identity -> 0..Len(users)],
           sessions' \subseteq [identity : Identity, user : DOMAIN users],
           disturbed' \subseteq Identity, disturbed \subseteq disturbed',
           NEW i \in Identity, i = Who[c],
           \A j \in Identity \ {i} :
              /\ links'[j] = links[j]
              /\ \A u \in DOMAIN users : [identity |-> j, user |-> u] \in sessions'
                                            <=> [identity |-> j, user |-> u] \in sessions,
           links'[i] \in DOMAIN users => links'[i] \in LedTo(i),
           st = "session" => Chosen(c) /\ links'[i] # 0,
           \A u : [identity |-> i, user |-> u] \in sessions' =>
              [identity |-> i, user |-> u] \in sessions \/ u \in LedTo(i),
           links[i] # 0 => links'[i] # 0,
           EmailOf[i] = NoEmail /\ i \notin disturbed' /\ callback[c].stage # "create"
               => links'[i] # 0
    PROVE  AccountInv'
<1>1. AccountTypeOK /\ users' = users
  BY DEF AccountInv
<1>2. callback' \in [Callback -> CallbackRow] /\ Moves(c, st, callback[c].user)
  BY <1>1, StageMoves
<1>3. AccountTypeOK' /\ RowsGrow /\ AddressUnique'
  BY <1>1, <1>2, RowsStay DEF AccountInv, AddressUnique, AccountTypeOK, CallbackRow
<1>4. st = "session" => callback[c].user \in LedTo(i) /\ callback[c].user # 0
  BY ChosenLed DEF AccountInv, ChosenKept
<1>5. ChosenKept'
  BY <1>2, <1>4, ChosenStays
<1>6. \A j \in Identity \ {i} : Spared(j)
  BY <1>1, <1>2, OthersSpared
<1>7. LedTo(i)' \subseteq LedTo(i)
  <2>1. LedTo(i)' \subseteq LedTo(i) \union {}
    BY <1>1, <1>2, <1>4, LedMore
  <2>. QED
    BY <2>1
<1>8. EmailOf[i] # NoEmail => \A u \in LedTo(i)' : users'[u].email = EmailOf[i]
  BY <1>1, <1>7 DEF AccountInv, ShownKept
<1>9. ASSUME EmailOf[i] = NoEmail, i \notin disturbed' PROVE Single(i)'
  <2>1. Single(i)
    BY <1>9 DEF AccountInv, HiddenKept
  <2>2. \A d \in Callback : Who[d] = i /\ Going(d) => d = c
    BY <2>1 DEF Single
  <2>3. \A d \in Callback : Who[d] = i /\ Going(d)' => d = c /\ st = "session"
    BY <1>2, <2>2 DEF Moves, Going
  <2>4. callback[c].stage = "create" => LedTo(i) = {}
    BY <2>1 DEF Single
  <2>5. \A d \in Callback : Who[d] = i =>
            /\ callback'[d].stage = "create" => LedTo(i)' = {}
            /\ callback'[d].stage = "session" => links'[i] # 0
    BY <1>2, <2>3 DEF Moves, Going
  <2>6. \A u, v \in LedTo(i)' : u = v
    BY <1>7, <2>1 DEF Single
  <2>7. LedTo(i)' # {} => links'[i] # 0
    BY <1>7, <1>9, <2>4
  <2>8. \A d, e \in Callback : Who[d] = i /\ Who[e] = i /\ Going(d)' /\ Going(e)' => d = e
    BY <2>3
  <2>. QED
    BY <2>5, <2>6, <2>7, <2>8 DEF Single
<1>. QED
  BY <1>3, <1>5, <1>6, <1>8, <1>9, OneIdentity

LEMMA LinkStep == ASSUME AccountInv, NEW c \in Callback, UpsertLink(c) PROVE AccountInv'
<1>. PICK i \in Identity : i = Who[c]
  BY WhoIs
<1>. DEFINE u == callback[c].user
            to == IF links[i] = 0 THEN u ELSE links[i]
<1>1. /\ callback[c].stage = "link" /\ Going(c) /\ Chosen(c)
      /\ links' = [links EXCEPT ![i] = to]
      /\ callback' = [callback EXCEPT ![c].stage = "session"]
      /\ UNCHANGED <<users, signup, rewards, sessions, disturbed>>
  BY DEF UpsertLink, Going, Chosen
<1>2. /\ u \in DOMAIN users /\ u \in LedTo(i)
      /\ links \in [Identity -> 0..Len(users)] /\ DOMAIN users = 1..Len(users)
      /\ Len(users) \in Nat
      /\ sessions \subseteq [identity : Identity, user : DOMAIN users] /\ disturbed \subseteq Identity
  BY <1>1, ChosenLed, AccountTypes DEF AccountInv
<1>3. to \in 0..Len(users) /\ to # 0 /\ (to \in DOMAIN users => to \in LedTo(i))
  BY <1>2 DEF LedTo
<1>. HIDE DEF u, to
<1>4. /\ links' \in [Identity -> 0..Len(users)] /\ links'[i] = to
      /\ \A j \in Identity \ {i} : links'[j] = links[j]
  BY <1>1, <1>2, <1>3
<1>. QED
  BY <1>1, <1>2, <1>3, <1>4, LaterStep

LEMMA SessionStep == ASSUME AccountInv, NEW c \in Callback, IssueSession(c) PROVE AccountInv'
<1>. PICK i \in Identity : i = Who[c]
  BY WhoIs
<1>. DEFINE u == callback[c].user
            s == [identity |-> i, user |-> u]
<1>1. /\ callback[c].stage = "session" /\ Going(c) /\ Chosen(c)
      /\ sessions' = sessions \union {s}
      /\ callback' = [callback EXCEPT ![c].stage = "done"]
      /\ UNCHANGED <<users, links, signup, rewards, disturbed>>
  BY DEF IssueSession, Going, Chosen
<1>2. /\ u \in DOMAIN users /\ u \in LedTo(i)
      /\ links \in [Identity -> 0..Len(users)]
      /\ sessions \subseteq [identity : Identity, user : DOMAIN users] /\ disturbed \subseteq Identity
  BY <1>1, ChosenLed, AccountTypes DEF AccountInv
<1>3. /\ s \in [identity : Identity, user : DOMAIN users]
      /\ \A j, w : [identity |-> j, user |-> w] = s => j = i /\ w = u
  BY <1>2
<1>. HIDE DEF s, u
<1>4. sessions' \subseteq [identity : Identity, user : DOMAIN users]
  BY <1>1, <1>2, <1>3
<1>5. \A j \in Identity \ {i}, w \in DOMAIN users :
          [identity |-> j, user |-> w] \in sessions' <=> [identity |-> j, user |-> w] \in sessions
  BY <1>1, <1>3
<1>6. \A w : [identity |-> i, user |-> w] \in sessions' =>
          [identity |-> i, user |-> w] \in sessions \/ w \in LedTo(i)
  BY <1>1, <1>2, <1>3
<1>7. links'[i] \in DOMAIN users => links'[i] \in LedTo(i)
  BY <1>1 DEF LedTo
<1>8. ASSUME i \notin disturbed' PROVE EmailOf[i] = NoEmail => links'[i] # 0
  BY <1>1, <1>8 DEF AccountInv, HiddenKept, Single
<1>. QED
  BY <1>1, <1>2, <1>4, <1>5, <1>6, <1>7, <1>8, LaterStep

LEMMA FailStep == ASSUME AccountInv, NEW c \in Callback, CallbackFails(c) PROVE AccountInv'
<1>. PICK i \in Identity : i = Who[c]
  BY WhoIs
<1>1. /\ Going(c) /\ callback' = [callback EXCEPT ![c].stage = "refused"]
      /\ disturbed' = IF callback[c].stage = "link" THEN disturbed \union {i} ELSE disturbed
      /\ UNCHANGED <<users, links, signup, rewards, sessions>>
  BY DEF CallbackFails
<1>2. /\ links \in [Identity -> 0..Len(users)] /\ disturbed \subseteq Identity
      /\ sessions \subseteq [identity : Identity, user : DOMAIN users]
  BY AccountTypes DEF AccountInv
<1>3. links'[i] \in DOMAIN users => links'[i] \in LedTo(i)
  BY <1>1 DEF LedTo
<1>4. ASSUME i \notin disturbed', callback[c].stage # "create", EmailOf[i] = NoEmail
      PROVE  links'[i] # 0
  <2>1. callback[c].stage = "session" /\ i \notin disturbed
    BY <1>1, <1>4 DEF Going
  <2>. QED
    BY <1>1, <1>4, <2>1 DEF AccountInv, HiddenKept, Single
<1>. QED
  BY <1>1, <1>2, <1>3, <1>4, LaterStep

-----------------------------------------------------------------------------
LEMMA InitAccounts == ASSUME AccountInit PROVE AccountInv
<1>1. DOMAIN users = {} /\ Len(users) = 0
  BY DEF AccountInit
<1>2. AccountTypeOK
  BY <1>1 DEF AccountInit, AccountTypeOK
<1>3. \A i \in Identity : LedTo(i) = {}
  BY <1>1 DEF LedTo
<1>4. \A c \in Callback : ~Going(c) /\ ~Chosen(c) /\ callback[c].stage = "new"
  BY DEF AccountInit, Going, Chosen
<1>5. \A r \in Registration : signup[r].stage = "new"
  BY DEF AccountInit
<1>. QED
  BY <1>1, <1>2, <1>3, <1>4, <1>5
     DEF AccountInv, AddressUnique, ShownKept, HiddenKept, Single, ChosenKept

\* AccountInv is inductive: every step of registrations, sign-ins and
\* administrators keeps it.
THEOREM AccountInductive == AccountSpec => []AccountInv
<1>1. AccountInit => AccountInv
  BY InitAccounts
<1>2. AccountInv /\ [AccountNext]_accountVars => AccountInv'
  <2>. SUFFICES ASSUME AccountInv, [AccountNext]_accountVars PROVE AccountInv'
    OBVIOUS
  <2>1. ASSUME NEW r \in Registration,
               CheckAddress(r) \/ CreateUser(r) \/ CreateReward(r) \/ RegistrationFails(r)
        PROVE  AccountInv'
    BY <2>1, RegisterStep, CreateUserStep
  <2>2. ASSUME NEW c \in Callback, Resolve(c) PROVE AccountInv'
    BY <2>2, ResolveStep
  <2>3. ASSUME NEW c \in Callback, CreateSocialUser(c) PROVE AccountInv'
    BY <2>3, CreateSocialStep
  <2>4. ASSUME NEW c \in Callback, UpsertLink(c) PROVE AccountInv'
    BY <2>4, LinkStep
  <2>5. ASSUME NEW c \in Callback, IssueSession(c) PROVE AccountInv'
    BY <2>5, SessionStep
  <2>6. ASSUME NEW c \in Callback, CallbackFails(c) PROVE AccountInv'
    BY <2>6, FailStep
  <2>7. ASSUME NEW u \in DOMAIN users, NEW s \in {"ACTIVE", "SUSPENDED", "DELETED"},
               SetUserState(u, s)
        PROVE  AccountInv'
    BY <2>7, StateStep
  <2>8. CASE UNCHANGED accountVars
    <3>1. UNCHANGED <<users, links, callback, signup, rewards, sessions, disturbed>>
      BY <2>8 DEF accountVars
    <3>2. AccountTypeOK' /\ ChosenKept'
      BY <3>1 DEF AccountInv, AccountTypeOK, ChosenKept, Chosen
    <3>. QED
      BY <3>1, <3>2, SignupStep
  <2>. QED
    BY <2>1, <2>2, <2>3, <2>4, <2>5, <2>6, <2>7, <2>8 DEF AccountNext
<1>. QED
  BY <1>1, <1>2, PTL DEF AccountSpec

\* An identity of a provider has one account, whatever registers, is suspended or
\* archived meanwhile; one that hides its address, if its sign-ins neither overlap
\* nor stop before the link (resolveOAuthUser of oauth.service.ts).
THEOREM AccountsOfIdentities == AccountSpec => []OneAccountPerIdentity
<1>1. AccountInv => OneAccountPerIdentity
  <2>. SUFFICES ASSUME AccountInv, NEW i \in Identity, EmailOf[i] # NoEmail \/ i \notin disturbed
                PROVE  /\ \A s, t \in sessions : s.identity = i /\ t.identity = i => s.user = t.user
                       /\ Cardinality({u \in DOMAIN users : users[u].origin = i}) <= 1
    BY DEF OneAccountPerIdentity
  <2>1. \A u, v \in LedTo(i) : u = v
    <3>1. CASE EmailOf[i] # NoEmail
      BY <3>1 DEF AccountInv, ShownKept, AddressUnique, LedTo
    <3>2. CASE EmailOf[i] = NoEmail
      BY <3>2 DEF AccountInv, HiddenKept, Single
    <3>. QED
      BY <3>1, <3>2
  <2>2. ASSUME NEW s \in sessions, s.identity = i PROVE s.user \in LedTo(i)
    <3>1. s \in [identity : Identity, user : DOMAIN users]
      BY AccountTypes DEF AccountInv
    <3>2. s = [identity |-> i, user |-> s.user] /\ s.user \in DOMAIN users
      BY <2>2, <3>1
    <3>. QED
      BY <3>2 DEF LedTo
  <2>3. Cardinality({u \in DOMAIN users : users[u].origin = i}) <= 1
    <3>. DEFINE mine == {u \in DOMAIN users : users[u].origin = i}
    <3>1. mine \subseteq LedTo(i)
      BY DEF LedTo
    <3>. HIDE DEF mine
    <3>2. CASE mine = {}
      BY <3>2, FS_EmptySet DEF mine
    <3>3. ASSUME NEW u \in mine PROVE Cardinality(mine) <= 1
      <4>1. mine = {u}
        BY <2>1, <3>1
      <4>2. Cardinality({u}) = 1
        BY FS_Singleton
      <4>. QED
        BY ONLY <4>1, <4>2
    <3>. QED
      BY <3>2, <3>3 DEF mine
  <2>. QED
    BY <2>1, <2>2, <2>3
<1>. QED
  BY <1>1, AccountInductive, PTL

-----------------------------------------------------------------------------
(***************************************************************************)
(* Settings.  A call is answered from an entry, so what holds of answers   *)
(* must hold of every entry, and before it of every row a reader found     *)
(* and has not stored yet: no value of an earlier tick replaced it, and no *)
(* change that its process was told to be sure of.                         *)
(***************************************************************************)
\* No newer value was written before a tick.
NewestBefore(v, at) == \A w \in 0..stored : since[w] < at => w <= v

CacheKept ==
    \A p \in Process : cached[p] # NotCached =>
        cached[p].value >= sure[p] /\ NewestBefore(cached[p].value, cached[p].at)

LookupsKept ==
    \A l \in Lookup :
        /\ lookup[l].value <= stored /\ lookup[l].due <= stored
        /\ lookup[l].stage = "found" =>
              /\ lookup[l].value >= lookup[l].due
              /\ lookup[l].value >= sure[lookup[l].process]
              /\ NewestBefore(lookup[l].value, elapsed)
        /\ lookup[l].stage = "done" => lookup[l].value >= lookup[l].due

\* Each change writes one value.
ToWrite == {s \in Setter : setter[s].stage = "new"}

ChangesLeft ==
    /\ Cardinality(ToWrite) + stored <= Cardinality(Setter)
    /\ \A s \in Setter : setter[s].value <= stored

SettingInv == SettingTypeOK /\ CacheKept /\ LookupsKept /\ ChangesLeft

-----------------------------------------------------------------------------
LEMMA MaxTwo ==
    ASSUME NEW a \in Nat, NEW b \in Nat
    PROVE  Max({a, b}) \in {a, b} /\ Max({a, b}) >= a /\ Max({a, b}) >= b
<1>1. CASE a >= b
  BY <1>1 DEF Max
<1>2. CASE b >= a
  BY <1>2 DEF Max
<1>. QED
  BY <1>1, <1>2

\* A set of numbers with a bound has a greatest element.
LEMMA GreatestNumber ==
    ASSUME NEW n \in Nat, NEW S \in SUBSET (0..n), S # {}
    PROVE  Max(S) \in S /\ \A s \in S : s <= Max(S)
<1>. DEFINE T == {n - s : s \in S}
<1>1. T \subseteq Nat /\ T # {}
  <2>1. \A s \in S : s \in 0..n /\ n - s \in Nat
    OBVIOUS
  <2>. QED
    BY <2>1
<1>2. PICK x \in T : \A y \in T : <<y, x>> \notin OpToRel(<, Nat)
  <2>. HIDE DEF T
  <2>. QED
    BY <1>1, NatLessThanWellFounded, WFMin
<1>3. PICK m \in S : x = n - m
  OBVIOUS
<1>4. \A s \in S : s <= m
  <2>. SUFFICES ASSUME NEW s \in S, ~(s <= m) PROVE FALSE
    OBVIOUS
  <2>1. n - s \in T /\ n - s \in Nat /\ n - s < x
    BY <1>3
  <2>2. <<n - s, x>> \in OpToRel(<, Nat)
    BY <1>1, <2>1 DEF OpToRel
  <2>. QED
    BY <1>2, <2>1, <2>2
<1>. QED
  BY <1>4 DEF Max

LEMMA SettingTypes ==
    ASSUME SettingTypeOK
    PROVE  /\ Cardinality(Setter) \in Nat /\ CacheTicks \in Nat \ {0} /\ MaxTicks \in Nat
           /\ stored \in Nat /\ stored <= Cardinality(Setter)
           /\ elapsed \in Nat /\ elapsed <= MaxTicks
           /\ \A p \in Process : /\ cached[p] \in [value : 0..stored, at : -1..elapsed]
                                 /\ sure[p] \in Nat /\ sure[p] <= stored
           /\ \A l \in Lookup : /\ lookup[l] \in LookupRow /\ lookup[l].process \in Process
                                /\ lookup[l].value \in Nat /\ lookup[l].due \in Nat
           /\ \A s \in Setter : /\ setter[s] \in SetterRow /\ setter[s].process \in Process
                                /\ setter[s].value \in Nat
           /\ \A v \in 0..stored : since[v] \in Nat
<1>1. Cardinality(Setter) \in Nat
  BY SettingAssumption, FS_CardinalityType
<1>2. \A l \in Lookup : /\ lookup[l] \in LookupRow /\ lookup[l].process \in Process
                        /\ lookup[l].value \in Nat /\ lookup[l].due \in Nat
  BY <1>1 DEF SettingTypeOK, LookupRow, Value
<1>3. \A s \in Setter : /\ setter[s] \in SetterRow /\ setter[s].process \in Process
                        /\ setter[s].value \in Nat
  BY <1>1 DEF SettingTypeOK, SetterRow, Value
<1>4. stored \in 0..Cardinality(Setter) /\ elapsed \in 0..MaxTicks /\ since \in [0..Cardinality(Setter) -> Nat]
  BY DEF SettingTypeOK, Value
<1>5. \A v \in 0..stored : since[v] \in Nat
  BY <1>1, <1>4
<1>6. \A p \in Process : /\ cached[p] \in [value : 0..stored, at : -1..elapsed]
                         /\ sure[p] \in 0..stored
  BY DEF SettingTypeOK
<1>. QED
  BY <1>1, <1>2, <1>3, <1>4, <1>5, <1>6, SettingAssumption

\* What a caller may count on was stored, and holds because it is old or because its process was told.
LEMMA WhatIsDue ==
    ASSUME SettingTypeOK, NEW p \in Process
    PROVE  /\ Due(p) \in 0..stored
           /\ \/ Due(p) = 0 \/ Due(p) = sure[p]
              \/ since[Due(p)] <= elapsed - CacheTicks
<1>. DEFINE old == {v \in 0..stored : since[v] <= elapsed - CacheTicks}
<1>1. stored \in Nat /\ sure[p] \in 0..stored
  BY SettingTypes
<1>2. old \union {0} \in SUBSET (0..stored) /\ old \union {0} # {}
  BY <1>1
<1>3. Max(old \union {0}) \in old \union {0}
  <2>. HIDE DEF old
  <2>. QED
    BY <1>1, <1>2, GreatestNumber
<1>4. Outdated \in 0..stored /\ (Outdated = 0 \/ since[Outdated] <= elapsed - CacheTicks)
  BY <1>1, <1>3 DEF Outdated
<1>5. Max({Outdated, sure[p]}) \in {Outdated, sure[p]}
  BY <1>1, <1>4, MaxTwo
<1>. QED
  BY <1>1, <1>4, <1>5 DEF Due

-----------------------------------------------------------------------------
(* Each step.                                                              *)
LEMMA SettingStart == ASSUME SettingInit PROVE SettingInv
<1>1. Cardinality(Setter) \in Nat /\ MaxTicks \in Nat
  BY SettingAssumption, FS_CardinalityType
<1>2. ToWrite \subseteq Setter /\ Cardinality(ToWrite) <= Cardinality(Setter)
  BY SettingAssumption, FS_Subset DEF ToWrite
<1>3. Cardinality(ToWrite) \in Nat
  BY <1>2, SettingAssumption, FS_Subset, FS_CardinalityType
<1>4. SettingTypeOK
  BY <1>1 DEF SettingInit, SettingTypeOK, LookupRow, SetterRow, Value, NotCached
<1>5. CacheKept
  BY DEF SettingInit, CacheKept
<1>6. LookupsKept
  BY DEF SettingInit, LookupsKept
<1>7. ChangesLeft
  BY <1>1, <1>2, <1>3 DEF SettingInit, ChangesLeft
<1>. QED
  BY <1>4, <1>5, <1>6, <1>7 DEF SettingInv

\* A step that only moves one lookup.
Answered(l, st, v, d) ==
    /\ UNCHANGED <<stored, setter, elapsed, since, sure>>
    /\ lookup' \in [Lookup -> LookupRow]
    /\ lookup'[l].stage = st /\ lookup'[l].value = v /\ lookup'[l].due = d
    /\ lookup'[l].process = lookup[l].process
    /\ \A m \in Lookup : m # l => lookup'[m] = lookup[m]

LEMMA AskStep == ASSUME SettingInv, NEW l \in Lookup, Ask(l) PROVE SettingInv'
<1>. PICK p \in Process : p = lookup[l].process
  BY SettingTypes DEF SettingInv
<1>. PICK d \in 0..stored : d = Due(p)
  BY WhatIsDue DEF SettingInv
<1>1. SettingTypeOK /\ lookup \in [Lookup -> LookupRow] /\ lookup[l] \in LookupRow
  BY SettingTypes DEF SettingInv, SettingTypeOK
<1>2. d \in Value
  BY SettingTypes DEF SettingInv, Value
<1>3. cached' = cached /\ UNCHANGED <<stored, setter, elapsed, since, sure>>
  BY DEF Ask, AfterHit
<1>4. CASE Fresh(p)
  <2>. PICK v \in 0..stored : v = cached[p].value
    BY SettingTypes DEF SettingInv
  <2>1. v \in Value
    BY SettingTypes DEF SettingInv, Value
  <2>2. Answered(l, "done", v, d)
    BY <1>1, <1>2, <1>3, <1>4, <2>1 DEF Ask, Answered, LookupRow
  <2>3. v >= d
    BY <1>4, SettingTypes, WhatIsDue DEF SettingInv, CacheKept, NewestBefore, Fresh
  <2>. QED
    BY <1>1, <1>3, <2>2, <2>3
      DEF SettingInv, SettingTypeOK, CacheKept, LookupsKept, ChangesLeft, NewestBefore, ToWrite, Answered
<1>5. CASE ~Fresh(p)
  <2>. PICK v \in Value : v = lookup[l].value
    BY <1>1 DEF LookupRow
  <2>1. Answered(l, "asked", v, d)
    BY <1>1, <1>2, <1>3, <1>5 DEF Ask, Answered, LookupRow
  <2>. QED
    BY <1>1, <1>3, <2>1
      DEF SettingInv, SettingTypeOK, CacheKept, LookupsKept, ChangesLeft, NewestBefore, ToWrite, Answered
<1>. QED
  BY <1>4, <1>5

LEMMA FindRowStep == ASSUME SettingInv, NEW l \in Lookup, FindRow(l) PROVE SettingInv'
<1>. PICK d \in Value : d = lookup[l].due
  BY SettingTypes DEF SettingInv, LookupRow
<1>1. SettingTypeOK /\ lookup \in [Lookup -> LookupRow] /\ lookup[l] \in LookupRow /\ stored \in Value
  BY SettingTypes DEF SettingInv, SettingTypeOK
<1>2. cached' = cached /\ Answered(l, "found", stored, d)
  BY <1>1 DEF FindRow, Answered, LookupRow
<1>3. d <= stored /\ sure[lookup[l].process] <= stored
  BY SettingTypes DEF SettingInv, LookupsKept
<1>4. NewestBefore(stored, elapsed)
  BY SettingTypes DEF SettingInv, NewestBefore
<1>5. SettingTypeOK'
  BY <1>1, <1>2 DEF SettingTypeOK, Answered
<1>6. CacheKept' /\ ChangesLeft'
  BY <1>2 DEF SettingInv, CacheKept, ChangesLeft, NewestBefore, ToWrite, Answered
<1>7. LookupsKept'
  <2>. SUFFICES ASSUME NEW m \in Lookup
                PROVE  /\ lookup'[m].value <= stored /\ lookup'[m].due <= stored
                       /\ lookup'[m].stage = "found" =>
                             /\ lookup'[m].value >= lookup'[m].due
                             /\ lookup'[m].value >= sure[lookup'[m].process]
                             /\ NewestBefore(lookup'[m].value, elapsed)
                       /\ lookup'[m].stage = "done" => lookup'[m].value >= lookup'[m].due
    BY <1>2 DEF LookupsKept, NewestBefore, Answered
  <2>1. CASE m = l
    BY <1>2, <1>3, <1>4, <2>1, SettingTypes DEF SettingInv, Answered
  <2>2. CASE m # l
    BY <1>2, <2>2 DEF SettingInv, LookupsKept, Answered
  <2>. QED
    BY <2>1, <2>2
<1>. QED
  BY <1>5, <1>6, <1>7 DEF SettingInv

LEMMA LookupFailsStep == ASSUME SettingInv, NEW l \in Lookup, LookupFails(l) PROVE SettingInv'
<1>. PICK v \in Value, d \in Value : v = lookup[l].value /\ d = lookup[l].due
  BY SettingTypes DEF SettingInv, LookupRow
<1>1. SettingTypeOK /\ lookup \in [Lookup -> LookupRow] /\ lookup[l] \in LookupRow
  BY SettingTypes DEF SettingInv, SettingTypeOK
<1>2. cached' = cached /\ Answered(l, "failed", v, d)
  BY <1>1 DEF LookupFails, Answered, LookupRow
<1>. QED
  BY <1>1, <1>2
    DEF SettingInv, SettingTypeOK, CacheKept, LookupsKept, ChangesLeft, NewestBefore, ToWrite, Answered

LEMMA StoreEntryStep == ASSUME SettingInv, NEW l \in Lookup, StoreEntry(l) PROVE SettingInv'
<1>. PICK v \in Value, d \in Value, p \in Process :
         v = lookup[l].value /\ d = lookup[l].due /\ p = lookup[l].process
  BY SettingTypes DEF SettingInv, LookupRow
<1>1. SettingTypeOK /\ lookup \in [Lookup -> LookupRow] /\ lookup[l] \in LookupRow
  BY SettingTypes DEF SettingInv, SettingTypeOK
<1>2. Answered(l, "done", v, d) /\ lookup[l].stage = "found"
  BY <1>1 DEF StoreEntry, Answered, LookupRow
<1>3. v \in 0..stored /\ v >= d /\ v >= sure[p] /\ NewestBefore(v, elapsed)
  BY <1>2, SettingTypes DEF SettingInv, LookupsKept
<1>4. cached' = [cached EXCEPT ![p] = [value |-> v, at |-> elapsed]]
  BY DEF StoreEntry
<1>5. cached' \in [Process -> [value : 0..stored, at : -1..elapsed]]
  BY <1>1, <1>3, <1>4, SettingTypes DEF SettingTypeOK
<1>6. SettingTypeOK'
  BY <1>1, <1>2, <1>5 DEF SettingTypeOK, Answered
<1>7. CacheKept'
  <2>. SUFFICES ASSUME NEW q \in Process, cached'[q] # NotCached
                PROVE  cached'[q].value >= sure[q] /\ NewestBefore(cached'[q].value, cached'[q].at)
    BY <1>2 DEF CacheKept, NewestBefore, Answered
  <2>1. CASE q = p
    BY <1>1, <1>3, <1>4, <2>1 DEF SettingTypeOK
  <2>2. CASE q # p
    BY <1>1, <1>4, <2>2 DEF SettingTypeOK, SettingInv, CacheKept
  <2>. QED
    BY <2>1, <2>2
<1>8. LookupsKept' /\ ChangesLeft'
  BY <1>2, <1>3 DEF SettingInv, LookupsKept, ChangesLeft, NewestBefore, ToWrite, Answered
<1>. QED
  BY <1>6, <1>7, <1>8 DEF SettingInv

\* The change takes one off those to come.
LEMMA WriteSettingStep == ASSUME SettingInv, NEW s \in Setter, WriteSetting(s) PROVE SettingInv'
<1>. PICK new \in Nat : new = stored + 1
  BY SettingTypes DEF SettingInv
<1>1. SettingTypeOK /\ setter \in [Setter -> SetterRow] /\ setter[s] \in SetterRow
  BY SettingTypes DEF SettingInv, SettingTypeOK
<1>2. /\ setter[s].stage = "new" /\ stored' = new /\ UNCHANGED <<cached, lookup, elapsed, sure>>
      /\ since' = [since EXCEPT ![new] = elapsed]
      /\ setter' = [setter EXCEPT ![s].stage = "written", ![s].value = new]
  BY DEF WriteSetting
<1>3. ToWrite \subseteq Setter /\ IsFiniteSet(ToWrite) /\ Cardinality(ToWrite) \in Nat
  BY SettingAssumption, FS_Subset, FS_CardinalityType DEF ToWrite
<1>4. s \in ToWrite /\ Cardinality(ToWrite \ {s}) = Cardinality(ToWrite) - 1
  BY <1>2, <1>3, FS_RemoveElement DEF ToWrite
<1>5. Cardinality(ToWrite \ {s}) \in Nat
  BY <1>3, FS_Subset, FS_CardinalityType
<1>6. new \in Value
  BY <1>3, <1>4, <1>5, SettingTypes DEF SettingInv, ChangesLeft, Value
<1>7. /\ setter' \in [Setter -> SetterRow] /\ setter'[s].stage = "written" /\ setter'[s].value = new
      /\ \A t \in Setter : t # s => setter'[t] = setter[t]
  BY <1>1, <1>2, <1>6 DEF SetterRow
<1>8. since' \in [Value -> Nat] /\ \A v \in 0..stored : since'[v] = since[v]
  BY <1>2, <1>6, SettingTypes DEF SettingInv, SettingTypeOK, Value
<1>9. since'[new] = elapsed
  BY <1>2, <1>6 DEF SettingInv, SettingTypeOK
<1>10. 0..stored \subseteq 0..new /\ 0..new = (0..stored) \union {new}
  BY SettingTypes DEF SettingInv
<1>11. SettingTypeOK'
  BY <1>1, <1>2, <1>6, <1>7, <1>8, <1>10 DEF SettingTypeOK
<1>12. CacheKept'
  BY <1>1, <1>2, <1>8, <1>9, <1>10, SettingTypes DEF SettingInv, CacheKept, NewestBefore
<1>13. LookupsKept'
  BY <1>1, <1>2, <1>8, <1>9, <1>10, SettingTypes DEF SettingInv, LookupsKept, NewestBefore
<1>14. ToWrite' = ToWrite \ {s}
  BY <1>2, <1>7 DEF ToWrite
<1>15. ChangesLeft'
  <2>1. Cardinality(ToWrite') + new <= Cardinality(Setter)
    BY <1>3, <1>4, <1>14, SettingTypes DEF SettingInv, ChangesLeft
  <2>2. \A t \in Setter : setter'[t].value <= new
    BY <1>7, SettingTypes DEF SettingInv, ChangesLeft
  <2>. QED
    BY <1>2, <2>1, <2>2 DEF ChangesLeft
<1>. QED
  BY <1>11, <1>12, <1>13, <1>15 DEF SettingInv

\* An entry is dropped; no query that may bring it back is older than the change.
LEMMA InvalidateStep == ASSUME SettingInv, NEW s \in Setter, invalidateSetting(s) PROVE SettingInv'
<1>. PICK p \in Process, v \in Nat : p = setter[s].process /\ v = setter[s].value
  BY SettingTypes DEF SettingInv
<1>1. SettingTypeOK /\ setter \in [Setter -> SetterRow] /\ setter[s] \in SetterRow
  BY SettingTypes DEF SettingInv, SettingTypeOK
<1>2. /\ cached' = [cached EXCEPT ![p] = NotCached] /\ UNCHANGED <<stored, lookup, elapsed, since>>
      /\ setter[s].stage = "written" /\ setter' = [setter EXCEPT ![s].stage = "done"]
  BY DEF invalidateSetting
<1>3. cached' \in [Process -> [value : 0..stored, at : -1..elapsed]]
  BY <1>1, <1>2, SettingTypes DEF SettingTypeOK, NotCached
<1>4. /\ setter' \in [Setter -> SetterRow] /\ setter'[s].stage = "done" /\ setter'[s].value = v
      /\ \A t \in Setter : t # s => setter'[t] = setter[t]
  BY <1>1, <1>2 DEF SetterRow
<1>5. sure[p] \in 0..stored /\ v <= stored /\ stored \in Nat
  BY SettingTypes DEF SettingInv, ChangesLeft
<1>6. PICK n \in 0..stored : /\ sure' = [sure EXCEPT ![p] = n]
                             /\ n = sure[p] \/ (n = v /\ ~Overtaken(s))
  <2>1. CASE Overtaken(s)
    <3>1. sure' = [sure EXCEPT ![p] = sure[p]]
      BY <1>1, <2>1 DEF invalidateSetting, SettingTypeOK
    <3>. QED
      BY <1>5, <3>1
  <2>2. CASE ~Overtaken(s)
    <3>1. sure' = [sure EXCEPT ![p] = Max({sure[p], v})]
      BY <2>2 DEF invalidateSetting
    <3>. PICK old \in Nat : old = sure[p]
      BY <1>5
    <3>2. Max({old, v}) \in {old, v}
      BY MaxTwo
    <3>3. v \in 0..stored
      BY <1>5
    <3>. QED
      BY <1>5, <2>2, <3>1, <3>2, <3>3
  <2>. QED
    BY <2>1, <2>2
<1>7. sure' \in [Process -> 0..stored] /\ sure'[p] = n /\ \A q \in Process : q # p => sure'[q] = sure[q]
  BY <1>1, <1>6 DEF SettingTypeOK
<1>8. SettingTypeOK'
  BY <1>1, <1>2, <1>3, <1>4, <1>7 DEF SettingTypeOK
<1>9. CacheKept'
  BY <1>1, <1>2, <1>7 DEF SettingInv, SettingTypeOK, CacheKept, NewestBefore
<1>10. LookupsKept'
  <2>. SUFFICES ASSUME NEW l \in Lookup, lookup[l].stage = "found"
                PROVE  lookup[l].value >= sure'[lookup[l].process]
    BY <1>2 DEF SettingInv, LookupsKept, NewestBefore
  <2>1. lookup[l].value >= sure[lookup[l].process] /\ lookup[l].process \in Process
    BY SettingTypes DEF SettingInv, LookupsKept
  <2>2. CASE lookup[l].process = p /\ n = v /\ ~Overtaken(s)
    <3>1. l \in Asking
      BY DEF Asking
    <3>. QED
      BY <1>5, <1>7, <2>2, <3>1, SettingTypes DEF SettingInv, Overtaken
  <2>. QED
    BY <1>6, <1>7, <2>1, <2>2
<1>11. ToWrite' = ToWrite
  BY <1>2, <1>4 DEF ToWrite
<1>12. ChangesLeft'
  BY <1>2, <1>4, <1>5, <1>11 DEF SettingInv, ChangesLeft
<1>. QED
  BY <1>8, <1>9, <1>10, <1>12 DEF SettingInv

LEMMA RestartStep == ASSUME SettingInv, NEW p \in Process, ProcessRestarts(p) PROVE SettingInv'
<1>1. SettingTypeOK /\ lookup \in [Lookup -> LookupRow] /\ setter \in [Setter -> SetterRow]
  BY SettingTypes DEF SettingInv, SettingTypeOK
<1>2. /\ cached' = [cached EXCEPT ![p] = NotCached] /\ UNCHANGED <<stored, elapsed, since, sure>>
      /\ lookup' = [l \in Lookup |-> IF Served(lookup[l], p) THEN [lookup[l] EXCEPT !.stage = "failed"]
                                     ELSE lookup[l]]
      /\ setter' = [s \in Setter |-> IF Served(setter[s], p) THEN [setter[s] EXCEPT !.stage = "done"]
                                     ELSE setter[s]]
  BY DEF ProcessRestarts
<1>3. cached' \in [Process -> [value : 0..stored, at : -1..elapsed]]
  BY <1>1, <1>2, SettingTypes DEF SettingInv, SettingTypeOK, NotCached
<1>4. \A l \in Lookup : /\ lookup'[l] \in LookupRow
                        /\ lookup'[l].value = lookup[l].value /\ lookup'[l].due = lookup[l].due
                        /\ lookup'[l] = lookup[l] \/ lookup'[l].stage = "failed"
  BY <1>1, <1>2 DEF LookupRow
<1>5. \A s \in Setter : /\ setter'[s] \in SetterRow /\ setter'[s].value = setter[s].value
                        /\ setter'[s].stage = "new" <=> setter[s].stage = "new"
  BY <1>1, <1>2 DEF SetterRow, Served
<1>6. lookup' \in [Lookup -> LookupRow] /\ setter' \in [Setter -> SetterRow]
  BY <1>2, <1>4, <1>5
<1>7. SettingTypeOK'
  BY <1>1, <1>2, <1>3, <1>6 DEF SettingTypeOK
<1>8. CacheKept'
  BY <1>1, <1>2 DEF SettingInv, SettingTypeOK, CacheKept, NewestBefore
<1>9. LookupsKept'
  BY <1>2, <1>4 DEF SettingInv, LookupsKept, NewestBefore
<1>10. ToWrite' = ToWrite
  BY <1>5 DEF ToWrite
<1>11. ChangesLeft'
  BY <1>2, <1>5, <1>10 DEF SettingInv, ChangesLeft
<1>. QED
  BY <1>7, <1>8, <1>9, <1>11 DEF SettingInv

LEMMA PassTickStep == ASSUME SettingInv, PassTick PROVE SettingInv'
<1>1. /\ elapsed < MaxTicks /\ elapsed' = elapsed + 1
      /\ UNCHANGED <<stored, cached, lookup, setter, since, sure>>
      /\ \A l \in Lookup : lookup[l].stage # "found"
  BY DEF PassTick, Asking
<1>2. SettingTypeOK'
  <2>1. elapsed' \in 0..MaxTicks /\ -1..elapsed \subseteq -1..elapsed'
    BY <1>1, SettingTypes DEF SettingInv
  <2>. QED
    BY <1>1, <2>1 DEF SettingInv, SettingTypeOK
<1>3. CacheKept' /\ LookupsKept' /\ ChangesLeft'
  BY <1>1 DEF SettingInv, CacheKept, LookupsKept, ChangesLeft, NewestBefore, ToWrite
<1>. QED
  BY <1>2, <1>3 DEF SettingInv

-----------------------------------------------------------------------------
(* The invariant of the settings holds in every state.                     *)
THEOREM SettingInductive == SettingSpec => []SettingInv
<1>1. ASSUME SettingInv, [SettingNext]_settingVars PROVE SettingInv'
  <2>1. CASE UNCHANGED settingVars
    BY <1>1, <2>1
      DEF settingVars, SettingInv, SettingTypeOK, CacheKept, LookupsKept, ChangesLeft, NewestBefore, ToWrite
  <2>2. CASE SettingNext
    BY <1>1, <2>2, AskStep, FindRowStep, StoreEntryStep, LookupFailsStep, WriteSettingStep,
       InvalidateStep, RestartStep, PassTickStep DEF SettingNext
  <2>. QED
    BY <1>1, <2>1, <2>2
<1>. QED
  BY <1>1, SettingStart, PTL DEF SettingSpec

(* settings.service.ts:6 and admin.service.ts:1584: no call is answered    *)
(* with a value that was replaced a whole TTL before, nor, in the process  *)
(* that served a change, with one older than that change, unless a query   *)
(* had found the old row when the entry was dropped.                       *)
THEOREM SettingTakesEffect == SettingSpec => []ChangesTakeEffect
<1>1. SettingInv => ChangesTakeEffect
  BY DEF SettingInv, LookupsKept, ChangesTakeEffect
<1>. QED
  BY <1>1, SettingInductive, PTL

-----------------------------------------------------------------------------
(***************************************************************************)
(* Alerts.  A detector or a reviewer acts on what it has read, so the      *)
(* counts hold only because whoever has read an alert and not yet written  *)
(* is alone with its print (Alone), and what it has read is still so       *)
(* (WritesFit, ReviewsFit).  Two requests that share a mark are raised     *)
(* because the one that is looked at last sees both (LastLookSees).        *)
(***************************************************************************)
Writing(f) == detector[f].stage = "write"

Reviewing(v) == review[v].alert # 0

ReviewedPrint(v) == alerts[review[v].alert].print

\* How far a detector is.
ProgressKept ==
    /\ IsFiniteSet(filed) /\ IsFiniteSet(events)
    /\ \A f \in Filing :
          /\ detector[f].stage = "new" <=> f \notin filed
          /\ detector[f].stage \in {"check", "match", "write"} =>
                detector[f].check \in 1..Len(Checks[Mine(f).table])
    /\ \A e \in events :
          /\ e.filing \in filed /\ e.alert \in DOMAIN alerts
          /\ detector[e.filing].stage = "done" \/ e.check < detector[e.filing].check

Alone ==
    /\ \A f, g \in Filing :
          Writing(f) /\ Writing(g) /\ detector[f].print = detector[g].print => f = g \/ detector[f].print \in blurred
    /\ \A v, w \in Reviewer :
          Reviewing(v) /\ Reviewing(w) /\ ReviewedPrint(v) = ReviewedPrint(w) => v = w \/ ReviewedPrint(v) \in blurred
    /\ \A f \in Filing, v \in Reviewer :
          Writing(f) /\ Reviewing(v) /\ detector[f].print = ReviewedPrint(v) => ReviewedPrint(v) \in blurred

\* A detector adds to an open alert of its print as it read it, or there is none.
WritesFit ==
    \A f \in Filing : Writing(f) =>
        LET p == detector[f].print
            i == detector[f].alert
        IN  /\ i # 0 => alerts[i].print = p
            /\ p \notin blurred =>
                  /\ i # 0 => alerts[i].status = "OPEN" /\ detector[f].seen = alerts[i].occurrences
                  /\ i = 0 => \A j \in DOMAIN alerts : alerts[j].print = p => alerts[j].status # "OPEN"

\* A review knows the events of its alert.
ReviewsFit ==
    \A v \in Reviewer : Reviewing(v) /\ ReviewedPrint(v) \notin blurred =>
        LET i == review[v].alert
        IN  /\ alerts[i].status = "OPEN" /\ review[v].seen = alerts[i].occurrences
            /\ review[v].knows = EventsOf(i)

CountsKept ==
    \A i \in DOMAIN alerts : alerts[i].print \notin blurred =>
        /\ alerts[i].occurrences = Cardinality(EventsOf(i))
        /\ alerts[i].status = "OPEN" \/ EventsOf(i) = judged[i]
        /\ \A j \in DOMAIN alerts :
              i # j /\ alerts[j].print = alerts[i].print =>
                  "OPEN" \notin {alerts[i].status} \intersect {alerts[j].status}

\* The requests that are compared, and the check that compares them.
Compared(f) == Mine(f).table \in {"deposit", "withdrawal", "claim"}

LooksAt(f) == IF Mine(f).table = "withdrawal" THEN 4 ELSE 1

Looked(f) ==
    LET d == detector[f]
    IN  /\ ~d.missed
        /\ \/ d.stage = "done" \/ d.check > LooksAt(f)
           \/ d.check = LooksAt(f) /\ d.stage \in {"match", "write"}

\* f has raised what it shares, or is about to.
WillRaise(f) ==
    \/ \E e \in events : e.filing = f /\ alerts[e.alert].print.kind \in Shared
    \/ /\ detector[f].stage \in {"match", "write"} /\ detector[f].check = LooksAt(f)
       /\ detector[f].print.kind \in Shared

LastLookSees ==
    \A f, g \in filed :
        Compared(f) /\ g \in Others(f) /\ f \in Others(g) /\ Looked(f) /\ Looked(g)
            => WillRaise(f) \/ WillRaise(g)

\* No alert counts more than happened, nor does what was read of it.
NeverMore ==
    /\ \A i \in DOMAIN alerts : alerts[i].occurrences <= Cardinality(EventsOf(i))
    /\ \A f \in Filing : Writing(f) /\ detector[f].alert # 0 =>
          detector[f].seen <= Cardinality(EventsOf(detector[f].alert))
    /\ \A v \in Reviewer : Reviewing(v) =>
          review[v].seen <= Cardinality(EventsOf(review[v].alert))

AlertInv ==
    /\ AlertTypeOK /\ ProgressKept /\ Alone /\ WritesFit /\ ReviewsFit /\ CountsKept /\ NeverMore
    /\ LastLookSees

-----------------------------------------------------------------------------
LEMMA AlertTypes ==
    ASSUME AlertTypeOK
    PROVE  /\ Len(alerts) \in Nat /\ DOMAIN alerts = 1..Len(alerts) /\ DOMAIN judged = 1..Len(alerts)
           /\ \A i \in DOMAIN alerts : alerts[i] \in AlertRow /\ alerts[i].print \in Prints
           /\ \A f \in Filing : detector[f] \in DetectorRow /\ detector[f].print \in Prints
           /\ \A v \in Reviewer : /\ review[v] \in ReviewRow
                                  /\ Reviewing(v) => review[v].alert \in DOMAIN alerts
<1>1. Len(alerts) \in Nat /\ DOMAIN alerts = 1..Len(alerts) /\ DOMAIN judged = 1..Len(alerts)
  BY DEF AlertTypeOK
<1>2. \A i \in DOMAIN alerts : alerts[i] \in AlertRow /\ alerts[i].print \in Prints
  <2>1. \A i \in DOMAIN alerts : alerts[i] \in AlertRow
    BY <1>1 DEF AlertTypeOK
  <2>. QED
    BY <2>1 DEF AlertRow
<1>3. \A f \in Filing : detector[f] \in DetectorRow /\ detector[f].print \in Prints
  BY DEF AlertTypeOK, DetectorRow
<1>4. \A v \in Reviewer : review[v] \in ReviewRow /\ review[v].alert \in Nat
  BY DEF AlertTypeOK, ReviewRow
<1>5. \A v \in Reviewer : Reviewing(v) => review[v].alert \in DOMAIN alerts
  BY <1>1, <1>4 DEF AlertTypeOK, Reviewing
<1>. QED
  BY <1>1, <1>2, <1>3, <1>4, <1>5

\* The checks of each kind of request.
LEMMA CheckLists ==
    /\ DOMAIN Checks = {"deposit", "withdrawal", "claim", "rejected join", "registration", "refused id",
                        "replay", "transfer"}
    /\ Len(Checks["deposit"]) = 3 /\ Checks["deposit"][1] = "proof"
    /\ Checks["deposit"][2] = "deposits" /\ Checks["deposit"][3] = "amount"
    /\ Len(Checks["withdrawal"]) = 4 /\ Checks["withdrawal"][1] = "withdrawals"
    /\ Checks["withdrawal"][2] = "churn" /\ Checks["withdrawal"][3] = "new account"
    /\ Checks["withdrawal"][4] = "payout"
    /\ Len(Checks["claim"]) = 1
<1>1. DOMAIN Checks = {"deposit", "withdrawal", "claim", "rejected join", "registration", "refused id",
                       "replay", "transfer"}
  BY DEF Checks
<1>2. Checks["deposit"] = <<"proof", "deposits", "amount">>
  BY DEF Checks
<1>3. Checks["withdrawal"] = <<"withdrawals", "churn", "new account", "payout">>
  BY DEF Checks
<1>4. Checks["claim"] = <<"claim">>
  BY DEF Checks
<1>5. Len(Checks["deposit"]) = 3 /\ Len(Checks["withdrawal"]) = 4 /\ Len(Checks["claim"]) = 1
  BY <1>2, <1>3, <1>4
<1>6. /\ Checks["deposit"][1] = "proof" /\ Checks["deposit"][2] = "deposits"
      /\ Checks["deposit"][3] = "amount"
  BY <1>2
<1>7. PICK w : w = Checks["withdrawal"]
  OBVIOUS
<1>8. w = <<"withdrawals", "churn", "new account", "payout">>
  BY <1>3, <1>7
<1>9. w[1] = "withdrawals" /\ w[2] = "churn" /\ w[3] = "new account" /\ w[4] = "payout"
  BY ONLY <1>8
<1>. QED
  BY <1>1, <1>5, <1>6, <1>7, <1>9

LEMMA FilingTypes ==
    ASSUME AlertTypeOK, NEW f \in Filing
    PROVE  /\ Mine(f).table \in DOMAIN Checks /\ Mine(f).account \in Account
           /\ Mine(f).mark \in Subject /\ Mine(f).account \in Subject /\ f \in Subject
<1>1. filing \in Filings
  BY DEF AlertTypeOK
<1>2. Mine(f).table \in DOMAIN Checks /\ Mine(f).account \in Account
  BY <1>1, AlertAssumption DEF Mine
<1>3. Mine(f).mark \in {g[h].mark : g \in Filings, h \in Filing}
  BY <1>1 DEF Mine
<1>. QED
  BY <1>2, <1>3 DEF Subject

\* Rows are finitely many, so what is counted of them is a number.
LEMMA RowsCounted ==
    ASSUME AlertTypeOK, ProgressKept, NEW f \in Filing
    PROVE  /\ Cardinality(OfAccount(f)) \in Nat
           /\ Cardinality(AccountsOf(Others(f))) \in Nat
           /\ Cardinality(AccountsOf(SameMark(f))) \in Nat
<1>1. OfAccount(f) \subseteq filed /\ Others(f) \subseteq filed /\ SameMark(f) \subseteq filed
  BY DEF OfAccount, Others, SameMark, Peers
<1>2. IsFiniteSet(OfAccount(f)) /\ IsFiniteSet(Others(f)) /\ IsFiniteSet(SameMark(f))
  BY <1>1, FS_Subset DEF ProgressKept
<1>3. ASSUME NEW fs, IsFiniteSet(fs) PROVE Cardinality(AccountsOf(fs)) \in Nat
  <2>. DEFINE account == [g \in fs |-> Mine(g).account]
  <2>1. account \in Surjection(fs, AccountsOf(fs))
    BY DEF Surjection, AccountsOf
  <2>2. IsFiniteSet(AccountsOf(fs))
    <3>. HIDE DEF account
    <3>. QED
      BY <1>3, <2>1, FS_Surjection DEF ExistsSurjection
  <2>. QED
    BY <2>2, FS_CardinalityType
<1>. QED
  BY <1>2, <1>3, FS_CardinalityType

\* What a check finds, and what the check of shared marks finds of them.
LEMMA SignalFound ==
    ASSUME AlertTypeOK, ProgressKept, NEW f \in Filing, detector[f].stage = "check"
    PROVE  /\ Signal(f) \subseteq Prints
           /\ Compared(f) /\ detector[f].check = LooksAt(f) =>
                 /\ Signal(f) = {} => Others(f) = {}
                 /\ \A p \in Signal(f) : p.kind \in Shared \/ Others(f) = {}
<1>. DEFINE t == Mine(f).table
            k == detector[f].check
<1>1. t \in DOMAIN Checks /\ k \in 1..Len(Checks[t])
  BY FilingTypes DEF ProgressKept
<1>2. /\ {Mine(f).mark} \in SUBSET Subject /\ {f} \in SUBSET Subject /\ {Mine(f).account} \in SUBSET Subject
      /\ {Mine(f).account, Mine(f).mark} \in SUBSET Subject
  BY FilingTypes
<1>3. /\ Cardinality(OfAccount(f)) \in Nat /\ Cardinality(OfAccount(f)) + 1 \in Nat
      /\ 1 + Cardinality(AccountsOf(Others(f))) \in Nat /\ Cardinality(AccountsOf(SameMark(f))) \in Nat
  BY RowsCounted
<1>4. CASE t = "deposit"
  <2>1. Signal(f) = OfDeposit(f, Checks["deposit"][k]) /\ k \in 1..3
    BY <1>1, <1>4, CheckLists DEF Signal
  <2>2. CASE k = 1
    <3>1. Signal(f) = OfDeposit(f, "proof")
      BY <2>1, <2>2, CheckLists
    <3>2. Signal(f) = IF Others(f) # {} THEN {Fingerprint("REUSED_PROOF", {Mine(f).mark}, 0)}
                      ELSE When(SameMark(f) \ {f} # {},
                                Fingerprint("DUPLICATE_PROOF", {Mine(f).account, Mine(f).mark}, 0))
      BY <3>1 DEF OfDeposit
    <3>3. Signal(f) \subseteq Prints
      BY <1>2, <3>2 DEF Kinds, Fingerprint, Prints, When
    <3>4. Signal(f) = {} => Others(f) = {}
      BY <3>2
    <3>5. \A p \in Signal(f) : p.kind \in Shared \/ Others(f) = {}
      BY <3>2 DEF Fingerprint, Shared
    <3>. QED
      BY <3>3, <3>4, <3>5
  <2>3. CASE k = 2
    <3>1. Signal(f) = Burst("DEPOSIT_BURST", {Mine(f).account}, Cardinality(OfAccount(f)), "deposits")
      BY <2>1, <2>3, CheckLists DEF OfDeposit
    <3>. QED
      BY <1>2, <1>3, <1>4, <2>3, <3>1 DEF Kinds, Fingerprint, Prints, When, Burst, LooksAt
  <2>4. CASE k = 3
    <3>1. Signal(f) = When(Unusual(f), Fingerprint("UNUSUAL_DEPOSIT_AMOUNT", {f}, 0))
      BY <2>1, <2>4, CheckLists DEF OfDeposit
    <3>. QED
      BY <1>2, <1>4, <2>4, <3>1 DEF Kinds, Fingerprint, Prints, When, LooksAt
  <2>. QED
    BY <2>1, <2>2, <2>3, <2>4
<1>5. CASE t = "withdrawal"
  <2>1. Signal(f) = OfWithdrawal(f, Checks["withdrawal"][k]) /\ k \in 1..4
    BY <1>1, <1>5, CheckLists DEF Signal
  <2>2. CASE k = 1
    <3>1. Signal(f) = Burst("WITHDRAWAL_BURST", {Mine(f).account}, Cardinality(OfAccount(f)), "withdrawals")
      BY <2>1, <2>2, CheckLists DEF OfWithdrawal
    <3>. QED
      BY <1>2, <1>3, <1>5, <2>2, <3>1 DEF Kinds, Fingerprint, Prints, When, Burst, LooksAt
  <2>3. CASE k = 2
    <3>1. Signal(f) = When(Mine(f).amount > 0 /\ Mine(f).amount <= Deposited[Mine(f).account],
                           Fingerprint("DEPOSIT_WITHDRAW_CHURN", {f}, 0))
      BY <2>1, <2>3, CheckLists DEF OfWithdrawal
    <3>. QED
      BY <1>2, <1>5, <2>3, <3>1 DEF Kinds, Fingerprint, Prints, When, LooksAt
  <2>4. CASE k = 3
    <3>1. Signal(f) = When(Mine(f).account \in NewAccounts, Fingerprint("NEW_ACCOUNT_WITHDRAWAL", {f}, 0))
      BY <2>1, <2>4, CheckLists DEF OfWithdrawal
    <3>. QED
      BY <1>2, <1>5, <2>4, <3>1 DEF Kinds, Fingerprint, Prints, When, LooksAt
  <2>5. CASE k = 4
    <3>1. Signal(f) = When(Others(f) # {}, Fingerprint("SHARED_PAYOUT_ACCOUNT", {Mine(f).mark},
                                                       1 + Cardinality(AccountsOf(Others(f)))))
      BY <2>1, <2>5, CheckLists DEF OfWithdrawal
    <3>2. Signal(f) \subseteq Prints
      BY <1>2, <1>3, <3>1 DEF Kinds, Fingerprint, Prints, When
    <3>3. Signal(f) = {} => Others(f) = {}
      BY <3>1 DEF When
    <3>4. \A p \in Signal(f) : p.kind \in Shared \/ Others(f) = {}
      BY <3>1 DEF Fingerprint, When, Shared
    <3>. QED
      BY <3>2, <3>3, <3>4
  <2>. QED
    BY <2>1, <2>2, <2>3, <2>4, <2>5
<1>6. CASE t = "claim"
  <2>1. Signal(f) = When(Others(f) # {}, Fingerprint("IDENTICAL_RESULT_CLAIMS", {Mine(f).mark}, 0))
    BY <1>6 DEF Signal, OfClaim
  <2>2. Signal(f) \subseteq Prints
    BY <1>2, <2>1 DEF Kinds, Fingerprint, Prints, When
  <2>3. Signal(f) = {} => Others(f) = {}
    BY <2>1 DEF When
  <2>4. \A p \in Signal(f) : p.kind \in Shared \/ Others(f) = {}
    BY <2>1 DEF Fingerprint, When, Shared
  <2>. QED
    BY <2>2, <2>3, <2>4
<1>7. CASE t = "rejected join"
  <2>1. Signal(f) = OfRejectedJoin(f) /\ ~Compared(f)
    BY <1>7 DEF Signal, Compared
  <2>. DEFINE n == Cardinality(OfAccount(f)) + 1
  <2>2. n \in Nat
    BY <1>3
  <2>3. Signal(f) \subseteq {Fingerprint("REPEATED_JOIN_FAILURES", {Mine(f).account}, n)}
    BY <2>1 DEF When, OfRejectedJoin
  <2>. HIDE DEF n
  <2>4. Signal(f) \subseteq Prints
    BY <1>2, <2>2, <2>3 DEF Kinds, Fingerprint, Prints
  <2>. QED
    BY <2>1, <2>4
<1>8. CASE t = "registration"
  <2>1. Signal(f) = OfRegistration(f) /\ ~Compared(f)
    BY <1>8 DEF Signal, Compared
  <2>. QED
    BY <1>2, <1>3, <2>1 DEF Kinds, Fingerprint, Prints, When, Burst, OfRegistration
<1>9. CASE t = "refused id"
  <2>1. Signal(f) = OfRefusedId(f) /\ ~Compared(f)
    BY <1>9 DEF Signal, Compared
  <2>. QED
    BY <1>2, <2>1 DEF Kinds, Fingerprint, Prints, OfRefusedId
<1>10. CASE t = "replay"
  <2>1. Signal(f) = OfReplay(f) /\ ~Compared(f)
    BY <1>10 DEF Signal, Compared
  <2>. QED
    BY <1>2, <2>1 DEF Kinds, Fingerprint, Prints, OfReplay
<1>11. CASE t = "transfer"
  <2>1. Signal(f) = OfTransfer(f) /\ ~Compared(f)
    BY <1>11 DEF Signal, Compared
  <2>. QED
    BY <1>2, <2>1 DEF Kinds, Fingerprint, Prints, When, OfTransfer
<1>. QED
  BY <1>1, <1>4, <1>5, <1>6, <1>7, <1>8, <1>9, <1>10, <1>11, CheckLists

-----------------------------------------------------------------------------
(* A detector that goes on to its next check.                              *)
LEMMA NextRow ==
    ASSUME NEW f \in Filing, detector[f] \in DetectorRow
    PROVE  /\ NextCheck(f) \in DetectorRow /\ NextCheck(f).missed = detector[f].missed
           /\ NextCheck(f).alert = 0
           /\ IF detector[f].check = Len(Checks[Mine(f).table])
              THEN NextCheck(f).stage = "done"
              ELSE NextCheck(f).stage = "check" /\ NextCheck(f).check = detector[f].check + 1
<1>. PICK d \in DetectorRow : d = detector[f]
  OBVIOUS
<1>. DEFINE last == d.check = Len(Checks[Mine(f).table])
            stage == IF last THEN "done" ELSE "check"
            check == IF last THEN 0 ELSE d.check + 1
            row == [stage |-> stage, check |-> check, print |-> NoFingerprint, alert |-> 0, seen |-> 0,
                    missed |-> d.missed]
<1>1. NextCheck(f) = [d EXCEPT !.stage = stage, !.check = check, !.print = NoFingerprint, !.alert = 0,
                               !.seen = 0]
  BY DEF NextCheck
<1>2. NoFingerprint \in Prints
  BY DEF NoFingerprint, Fingerprint, Prints, Kinds
<1>3. stage \in {"done", "check"} /\ check \in Nat /\ d.missed \in BOOLEAN
  BY DEF DetectorRow
<1>4. row \in DetectorRow
  <2>. HIDE DEF stage, check
  <2>. QED
    BY <1>2, <1>3 DEF DetectorRow
<1>5. NextCheck(f) = row
  <2>. HIDE DEF stage, check
  <2>. QED
    BY <1>1 DEF DetectorRow
<1>. QED
  BY <1>4, <1>5

\* The same, when the alert of the check was not written.
LEMMA NextRowMissed ==
    ASSUME NEW f \in Filing, detector[f] \in DetectorRow
    PROVE  LET d == [NextCheck(f) EXCEPT !.missed = TRUE]
           IN  /\ d \in DetectorRow /\ d.missed /\ d.alert = 0 /\ d.stage = NextCheck(f).stage
               /\ d.check = NextCheck(f).check
<1>. PICK row \in DetectorRow : row = NextCheck(f)
  BY NextRow
<1>1. row.alert = 0
  BY NextRow
<1>. QED
  BY <1>1 DEF DetectorRow

\* What a detector has looked at with d in its place.
LookedAt(f, d) ==
    /\ ~d.missed
    /\ \/ d.stage = "done" \/ d.check > LooksAt(f)
       \/ d.check = LooksAt(f) /\ d.stage \in {"match", "write"}

Raising(f) == \E e \in events : e.filing = f /\ alerts[e.alert].print.kind \in Shared

ToRaise(f, d) ==
    d.stage \in {"match", "write"} /\ d.check = LooksAt(f) /\ d.print.kind \in Shared

LEMMA Looking ==
    \A f : /\ Looked(f) <=> LookedAt(f, detector[f])
           /\ WillRaise(f) <=> Raising(f) \/ ToRaise(f, detector[f])
  BY DEF Looked, LookedAt, WillRaise, Raising, ToRaise

\* The check that compares is one of the checks.
LEMMA LooksInside ==
    ASSUME AlertTypeOK, NEW f \in Filing, Compared(f)
    PROVE  LooksAt(f) \in 1..Len(Checks[Mine(f).table])
<1>. PICK n : n = Len(Checks[Mine(f).table])
  OBVIOUS
<1>1. CASE Mine(f).table = "deposit"
  <2>1. n = 3
    BY <1>1, CheckLists
  <2>2. LooksAt(f) = 1
    BY <1>1 DEF LooksAt
  <2>3. LooksAt(f) \in 1..n
    BY ONLY <2>1, <2>2
  <2>. QED
    BY <2>3
<1>2. CASE Mine(f).table = "withdrawal"
  <2>1. n = 4
    BY <1>2, CheckLists
  <2>2. LooksAt(f) = 4
    BY <1>2 DEF LooksAt
  <2>3. LooksAt(f) \in 1..n
    BY ONLY <2>1, <2>2
  <2>. QED
    BY <2>3
<1>3. CASE Mine(f).table = "claim"
  <2>1. n = 1
    BY <1>3, CheckLists
  <2>. QED
    BY <1>3, <2>1 DEF LooksAt
<1>. QED
  BY <1>1, <1>2, <1>3 DEF Compared

\* Going on means to have looked only if the check that ends here was the one that compares.
LEMMA NextLooked ==
    ASSUME AlertTypeOK, ProgressKept, NEW f \in Filing, Compared(f),
           detector[f].stage \in {"check", "match", "write"}, LookedAt(f, NextCheck(f))
    PROVE  Looked(f) \/ (detector[f].stage = "check" /\ detector[f].check = LooksAt(f) /\ ~detector[f].missed)
<1>1. detector[f].check \in 1..Len(Checks[Mine(f).table])
  BY DEF ProgressKept
<1>2. LooksAt(f) \in 1..Len(Checks[Mine(f).table])
  BY LooksInside
<1>3. ~detector[f].missed
  BY AlertTypes, NextRow DEF LookedAt
<1>4. detector[f].check >= LooksAt(f)
  BY <1>1, <1>2, AlertTypes, NextRow DEF LookedAt
<1>. QED
  BY <1>1, <1>2, <1>3, <1>4 DEF Looked

-----------------------------------------------------------------------------
(* A step of a detector that writes nothing.                               *)
\* Detector f comes to d.
Comes(f, d) ==
    /\ detector' = [detector EXCEPT ![f] = d]
    /\ UNCHANGED <<filing, filed, dropped, alerts, review, enabled, events, judged>>
    /\ blurred \subseteq blurred'
    /\ d \in DetectorRow /\ d.alert <= Len(alerts)
    /\ detector[f].stage \in {"check", "match", "write"} /\ d.stage # "new"
    /\ d.stage # "done" => d.check \in 1..Len(Checks[Mine(f).table]) /\ d.check >= detector[f].check

\* It may be about to write an alert.
MayWrite(d, b) ==
    d.stage = "write" =>
        /\ d.alert # 0 => /\ alerts[d.alert].print = d.print
                          /\ d.seen <= Cardinality(EventsOf(d.alert))
        /\ d.print \notin b =>
              /\ ~Busy(d.print)
              /\ d.alert # 0 => alerts[d.alert].status = "OPEN" /\ d.seen = alerts[d.alert].occurrences
              /\ d.alert = 0 => \A j \in DOMAIN alerts : alerts[j].print = d.print => alerts[j].status # "OPEN"

\* If it has looked, it found nothing, or raises what it found.
SeesShared(f, d) ==
    Compared(f) /\ LookedAt(f, d) =>
        \/ Others(f) = {} \/ ToRaise(f, d)
        \/ Looked(f) /\ (WillRaise(f) => Raising(f))

LEMMA ComesStep ==
    ASSUME AlertInv, NEW f \in Filing, NEW d, Comes(f, d), MayWrite(d, blurred'), SeesShared(f, d)
    PROVE  AlertInv'
<1>1. /\ detector \in [Filing -> DetectorRow] /\ d \in DetectorRow
      /\ detector' = [detector EXCEPT ![f] = d]
      /\ detector'[f] = d /\ \A g \in Filing : g # f => detector'[g] = detector[g]
  BY DEF AlertInv, AlertTypeOK, Comes
<1>2. UNCHANGED <<filing, filed, dropped, alerts, review, enabled, events, judged>> /\ blurred \subseteq blurred'
  BY DEF Comes
<1>3. AlertTypeOK'
  BY <1>1, <1>2 DEF AlertInv, AlertTypeOK, Comes
<1>4. f \in filed /\ detector[f].check \in Nat /\ d.check \in Nat
  BY <1>1 DEF AlertInv, ProgressKept, Comes, DetectorRow
<1>5. ProgressKept'
  <2>1. \A g \in Filing : /\ detector'[g].stage = "new" <=> g \notin filed
                          /\ detector'[g].stage \in {"check", "match", "write"} =>
                                detector'[g].check \in 1..Len(Checks[Mine(g).table])
    BY <1>1, <1>4 DEF AlertInv, ProgressKept, Comes
  <2>2. \A e \in events : detector'[e.filing].stage = "done" \/ e.check < detector'[e.filing].check
    <3>. SUFFICES ASSUME NEW e \in events
                  PROVE  detector'[e.filing].stage = "done" \/ e.check < detector'[e.filing].check
      OBVIOUS
    <3>1. e.filing \in Filing /\ e.check \in Nat
      BY DEF AlertInv, AlertTypeOK, Event
    <3>2. detector[e.filing].stage = "done" \/ e.check < detector[e.filing].check
      BY DEF AlertInv, ProgressKept
    <3>. QED
      BY <1>1, <1>4, <3>1, <3>2 DEF Comes
  <2>. QED
    BY <1>2, <2>1, <2>2 DEF AlertInv, ProgressKept, Mine
<1>6. Alone'
  BY <1>1, <1>2 DEF AlertInv, Alone, MayWrite, Busy, Writing, Reviewing, ReviewedPrint
<1>7. WritesFit'
  BY <1>1, <1>2 DEF AlertInv, WritesFit, MayWrite, Writing
<1>8. ReviewsFit' /\ CountsKept'
  BY <1>2 DEF AlertInv, ReviewsFit, CountsKept, Reviewing, ReviewedPrint, EventsOf
<1>9. LastLookSees'
  <2>. SUFFICES ASSUME NEW g \in filed, NEW h \in filed, Compared(g), h \in Others(g), g \in Others(h),
                       LookedAt(g, detector'[g]), LookedAt(h, detector'[h])
                PROVE  \/ Raising(g) \/ ToRaise(g, detector'[g])
                       \/ Raising(h) \/ ToRaise(h, detector'[h])
    BY <1>2, <1>3 DEF LastLookSees, Compared, Others, Counts, SameMark, Peers, Mine, Looked, LookedAt, LooksAt,
                      WillRaise, Raising, ToRaise
  <2>1. g \in Filing /\ h \in Filing /\ g # h
    BY DEF AlertInv, AlertTypeOK, Others
  <2>2. Compared(h) /\ g \in Others(h)
    BY DEF Compared, Others, SameMark, Peers
  <2>3. Looked(g) /\ Looked(h) => WillRaise(g) \/ WillRaise(h)
    BY DEF AlertInv, LastLookSees
  <2>4. CASE g = f
    BY <1>1, <2>1, <2>2, <2>3, <2>4, Looking DEF SeesShared
  <2>5. CASE h = f
    BY <1>1, <2>1, <2>2, <2>3, <2>5, Looking DEF SeesShared
  <2>6. CASE g # f /\ h # f
    BY <1>1, <2>1, <2>3, <2>6, Looking
  <2>. QED
    BY <2>4, <2>5, <2>6
<1>10. NeverMore'
  BY <1>1, <1>2 DEF AlertInv, NeverMore, MayWrite, Writing, Reviewing, EventsOf
<1>. QED
  BY <1>3, <1>5, <1>6, <1>7, <1>8, <1>9, <1>10 DEF AlertInv

-----------------------------------------------------------------------------
LEMMA AlertStart == ASSUME AlertInit PROVE AlertInv
<1>1. NoDetector \in DetectorRow /\ NoDetector.stage = "new" /\ NoDetector.alert = 0 /\ NoDetector.check = 0
  BY DEF NoDetector, DetectorRow, NoFingerprint, Fingerprint, Prints, Kinds
<1>2. NoReview \in ReviewRow /\ NoReview.alert = 0
  BY DEF NoReview, ReviewRow
<1>3. \A f \in Filing : detector[f] = NoDetector
  BY DEF AlertInit
<1>4. \A v \in Reviewer : review[v] = NoReview
  BY DEF AlertInit
<1>5. AlertTypeOK
  <2>1. detector \in [Filing -> DetectorRow] /\ review \in [Reviewer -> ReviewRow]
    BY <1>1, <1>2 DEF AlertInit
  <2>2. alerts \in Seq(AlertRow) /\ judged \in Seq(SUBSET Event) /\ Len(alerts) = 0 /\ Len(judged) = 0
    BY DEF AlertInit
  <2>. QED
    BY <1>1, <1>2, <1>3, <1>4, <2>1, <2>2 DEF AlertTypeOK, AlertInit
<1>6. ProgressKept
  BY <1>1, <1>3, FS_EmptySet DEF ProgressKept, AlertInit
<1>7. Alone /\ WritesFit
  BY <1>1, <1>2, <1>3, <1>4 DEF Alone, WritesFit, Writing, Reviewing
<1>8. ReviewsFit
  BY <1>2, <1>4 DEF ReviewsFit, Reviewing
<1>9. CountsKept /\ LastLookSees
  BY DEF AlertInit, CountsKept, LastLookSees
<1>10. NeverMore
  BY <1>1, <1>2, <1>3, <1>4 DEF AlertInit, NeverMore, Writing, Reviewing
<1>. QED
  BY <1>5, <1>6, <1>7, <1>8, <1>9, <1>10 DEF AlertInv

\* A new row is seen by no detector that is done, and its own detector has not looked.
LEMMA FileStep == ASSUME AlertInv, NEW f \in Filing, File(f) PROVE AlertInv'
<1>. PICK d : d = [detector[f] EXCEPT !.stage = "check", !.check = 1]
  OBVIOUS
<1>1. AlertTypeOK /\ detector \in [Filing -> DetectorRow] /\ detector[f] \in DetectorRow
  BY AlertTypes DEF AlertInv, AlertTypeOK
<1>2. d \in DetectorRow /\ d.stage = "check" /\ d.check = 1 /\ d.alert = detector[f].alert
  <2>. PICK c \in DetectorRow : c = detector[f]
    BY <1>1
  <2>1. d = [c EXCEPT !.stage = "check", !.check = 1]
    OBVIOUS
  <2>. DEFINE row == [stage |-> "check", check |-> 1, print |-> c.print, alert |-> c.alert,
                      seen |-> c.seen, missed |-> c.missed]
  <2>2. row \in DetectorRow
    BY DEF DetectorRow
  <2>3. d = row
    BY <2>1 DEF DetectorRow
  <2>. QED
    BY <2>2, <2>3
<1>3. /\ detector[f].stage = "new" /\ filed' = filed \union {f}
      /\ UNCHANGED <<filing, dropped, alerts, review, enabled, events, judged, blurred>>
      /\ detector' = [detector EXCEPT ![f] = d]
  BY DEF File, Step
<1>4. detector'[f] = d /\ \A g \in Filing : g # f => detector'[g] = detector[g]
  BY <1>1, <1>3
<1>5. f \notin filed
  BY <1>3 DEF AlertInv, ProgressKept
<1>6. AlertTypeOK'
  BY <1>1, <1>2, <1>3, <1>4 DEF AlertTypeOK
<1>7. ProgressKept'
  <2>1. 1 \in 1..Len(Checks[Mine(f).table])
    <3>. PICK t \in DOMAIN Checks : t = Mine(f).table
      BY <1>1, FilingTypes
    <3>. PICK n : n = Len(Checks[t])
      OBVIOUS
    <3>1. CASE t \in {"deposit", "withdrawal"}
      <4>1. n \in {3, 4}
        BY <3>1, CheckLists
      <4>2. 1 \in 1..n
        BY ONLY <4>1
      <4>. QED
        BY <4>2
    <3>2. CASE t \notin {"deposit", "withdrawal"}
      <4>1. Checks[t] = <<t>>
        BY <3>2 DEF Checks
      <4>. QED
        BY <4>1
    <3>. QED
      BY <3>1, <3>2
  <2>2. IsFiniteSet(filed')
    BY <1>3, FS_AddElement DEF AlertInv, ProgressKept
  <2>3. \A g \in Filing : /\ detector'[g].stage = "new" <=> g \notin filed'
                          /\ detector'[g].stage \in {"check", "match", "write"} =>
                                detector'[g].check \in 1..Len(Checks[Mine(g).table])
    <3>. TAKE g \in Filing
    <3>1. CASE g = f
      BY <1>2, <1>3, <1>4, <2>1, <3>1
    <3>2. CASE g # f
      BY <1>3, <1>4, <3>2 DEF AlertInv, ProgressKept
    <3>. QED
      BY <3>1, <3>2
  <2>4. \A e \in events : /\ e.filing \in filed' /\ e.alert \in DOMAIN alerts
                          /\ detector'[e.filing].stage = "done" \/ e.check < detector'[e.filing].check
    <3>. SUFFICES ASSUME NEW e \in events
                  PROVE  /\ e.filing \in filed' /\ e.alert \in DOMAIN alerts
                         /\ detector'[e.filing].stage = "done" \/ e.check < detector'[e.filing].check
      OBVIOUS
    <3>1. e.filing \in filed /\ e.filing \in Filing
      BY DEF AlertInv, AlertTypeOK, Event, ProgressKept
    <3>. QED
      BY <1>3, <1>4, <1>5, <3>1 DEF AlertInv, ProgressKept
  <2>. QED
    BY <1>3, <2>2, <2>3, <2>4 DEF AlertInv, ProgressKept, Mine
<1>8. Alone' /\ WritesFit'
  BY <1>2, <1>3, <1>4 DEF AlertInv, Alone, WritesFit, Writing, Reviewing, ReviewedPrint
<1>9. ReviewsFit' /\ CountsKept'
  BY <1>3 DEF AlertInv, ReviewsFit, CountsKept, Reviewing, ReviewedPrint, EventsOf
<1>10. LastLookSees'
  <2>1. ~LookedAt(f, d)
    BY <1>2 DEF LookedAt, LooksAt
  <2>. SUFFICES ASSUME NEW g \in filed', NEW h \in filed', Compared(g), h \in Others(g)', g \in Others(h)',
                       LookedAt(g, detector'[g]), LookedAt(h, detector'[h])
                PROVE  \/ Raising(g) \/ ToRaise(g, detector'[g])
                       \/ Raising(h) \/ ToRaise(h, detector'[h])
    BY <1>3 DEF LastLookSees, Compared, Mine, Looked, LookedAt, LooksAt, WillRaise, Raising, ToRaise
  <2>2. g \in filed /\ h \in filed /\ g \in Filing /\ h \in Filing
    BY <1>3, <1>4, <2>1 DEF AlertInv, AlertTypeOK
  <2>3. h \in Others(g) /\ g \in Others(h) /\ g # f /\ h # f
    BY <1>3, <1>5, <2>2 DEF Others, Counts, SameMark, Peers, Mine
  <2>4. Looked(g) /\ Looked(h) => WillRaise(g) \/ WillRaise(h)
    BY <2>2, <2>3 DEF AlertInv, LastLookSees
  <2>. QED
    BY <1>4, <2>2, <2>3, <2>4, Looking
<1>11. NeverMore'
  BY <1>2, <1>3, <1>4 DEF AlertInv, NeverMore, Writing, Reviewing, EventsOf
<1>. QED
  BY <1>6, <1>7, <1>8, <1>9, <1>10, <1>11 DEF AlertInv

\* A request that is dropped is found by no check that begins after, and asks for nothing.
LEMMA DropStep == ASSUME AlertInv, NEW f \in Filing, Drop(f) PROVE AlertInv'
<1>1. /\ f \in filed /\ dropped' = dropped \union {f}
      /\ UNCHANGED <<filing, filed, detector, alerts, review, enabled, events, judged, blurred>>
  BY DEF Drop
<1>2. AlertTypeOK' /\ ProgressKept'
  BY <1>1 DEF AlertInv, AlertTypeOK, ProgressKept, Mine
<1>3. Alone' /\ WritesFit'
  BY <1>1 DEF AlertInv, Alone, WritesFit, Writing, Reviewing, ReviewedPrint
<1>4. ReviewsFit' /\ CountsKept' /\ NeverMore'
  BY <1>1 DEF AlertInv, ReviewsFit, CountsKept, NeverMore, Writing, Reviewing, ReviewedPrint, EventsOf
<1>5. \A g \in filed : Others(g)' \subseteq Others(g)
  BY <1>1 DEF Others, Counts, SameMark, Peers, Mine
<1>6. LastLookSees'
  BY <1>1, <1>5 DEF AlertInv, LastLookSees, Compared, Mine, Looked, LooksAt, WillRaise
<1>. QED
  BY <1>2, <1>3, <1>4, <1>6 DEF AlertInv

LEMMA CheckStep == ASSUME AlertInv, NEW f \in Filing, Check(f) PROVE AlertInv'
<1>. PICK c \in DetectorRow : c = detector[f]
  BY AlertTypes DEF AlertInv
<1>1. c.stage = "check" /\ UNCHANGED <<filing, filed, dropped, alerts, review, enabled, events, judged, blurred>>
  BY DEF Check
<1>2. c.check \in 1..Len(Checks[Mine(f).table]) /\ c.check \in Nat /\ AlertTypeOK /\ ProgressKept
  BY <1>1 DEF AlertInv, ProgressKept, DetectorRow
<1>3. WillRaise(f) => Raising(f)
  BY <1>1, Looking DEF ToRaise
<1>4. CASE Signal(f) = {} /\ Step(f, NextCheck(f))
  <2>. PICK d \in DetectorRow : d = NextCheck(f)
    BY NextRow
  <2>1. d.stage \in {"check", "done"} /\ d.alert = 0 /\ (d.stage = "check" => d.check = c.check + 1)
        /\ (c.check = Len(Checks[Mine(f).table]) => d.stage = "done")
    BY NextRow
  <2>2. Comes(f, d)
    BY <1>1, <1>2, <1>4, <2>1, AlertTypes DEF Comes, Step
  <2>3. SeesShared(f, d)
    BY <1>1, <1>2, <1>3, <1>4, NextLooked, SignalFound DEF SeesShared
  <2>. QED
    BY <2>1, <2>2, <2>3, ComesStep DEF MayWrite
<1>5. ASSUME NEW p \in Signal(f), Step(f, [detector[f] EXCEPT !.stage = "match", !.print = p])
      PROVE  AlertInv'
  <2>1. p \in Prints
    BY <1>1, <1>2, SignalFound
  <2>. PICK d : d = [c EXCEPT !.stage = "match", !.print = p]
    OBVIOUS
  <2>2. /\ d \in DetectorRow /\ d.stage = "match" /\ d.print = p
        /\ d.check = c.check /\ d.alert = c.alert /\ d.missed = c.missed
    BY <2>1 DEF DetectorRow
  <2>3. c.alert <= Len(alerts)
    BY <1>2 DEF AlertTypeOK
  <2>4. Comes(f, d)
    BY <1>1, <1>2, <1>5, <2>2, <2>3 DEF Comes, Step
  <2>5. SeesShared(f, d)
    BY <1>1, <1>2, <1>3, <2>2, SignalFound DEF SeesShared, LookedAt, Looked, ToRaise
  <2>. QED
    BY <2>2, <2>4, <2>5, ComesStep DEF MayWrite
<1>. QED
  BY <1>4, <1>5 DEF Check

\* The alert of a check is lost and the detector goes on.
LEMMA MissedStep ==
    ASSUME AlertInv, NEW f \in Filing, detector[f].stage \in {"match", "write"},
           Step(f, [NextCheck(f) EXCEPT !.missed = TRUE]),
           UNCHANGED <<filing, filed, dropped, alerts, review, enabled, events, judged, blurred>>
    PROVE  AlertInv'
<1>. PICK d : d = [NextCheck(f) EXCEPT !.missed = TRUE]
  OBVIOUS
<1>1. AlertTypeOK /\ detector[f] \in DetectorRow
  BY AlertTypes DEF AlertInv
<1>2. detector[f].check \in 1..Len(Checks[Mine(f).table]) /\ detector[f].check \in Nat
  BY <1>1 DEF AlertInv, ProgressKept, DetectorRow
<1>3. d \in DetectorRow /\ d.missed /\ d.alert = 0 /\ d.stage = NextCheck(f).stage /\ d.check = NextCheck(f).check
  BY <1>1, NextRowMissed
<1>4. d.stage \in {"check", "done"} /\ (d.stage = "check" => d.check = detector[f].check + 1)
      /\ (detector[f].check = Len(Checks[Mine(f).table]) => d.stage = "done")
  BY <1>1, <1>3, NextRow
<1>5. Comes(f, d)
  BY <1>1, <1>2, <1>3, <1>4, AlertTypes DEF Comes, Step
<1>. QED
  BY <1>3, <1>4, <1>5, ComesStep DEF MayWrite, SeesShared, LookedAt

LEMMA WindowIsNumber == AlertWindow \in Nat
  BY AlertAssumption

\* Every open alert of the print is among those the query takes.
LEMMA WindowSees ==
    ASSUME AlertTypeOK, NEW p, Cardinality(OpenAlerts(p.kind)) <= AlertWindow,
           NEW i \in DOMAIN alerts, alerts[i].status = "OPEN", alerts[i].print = p
    PROVE  i \in Matching(p)
<1>. DEFINE open == OpenAlerts(p.kind)
            newer == {j \in open : j > i}
<1>1. IsFiniteSet(1..Len(alerts)) /\ DOMAIN alerts = 1..Len(alerts)
  BY AlertTypes, FS_Interval
<1>2. i \in open /\ open \subseteq 1..Len(alerts)
  BY <1>1 DEF OpenAlerts
<1>3. newer \subseteq open \ {i}
  BY <1>1, <1>2
<1>. HIDE DEF open
<1>4. IsFiniteSet(open)
  BY <1>1, <1>2, FS_Subset
<1>5. Cardinality(open) \in Nat /\ IsFiniteSet(open \ {i}) /\ Cardinality(open \ {i}) = Cardinality(open) - 1
  BY <1>2, <1>4, FS_RemoveElement, FS_CardinalityType
<1>6. Cardinality(newer) \in Nat /\ Cardinality(newer) <= Cardinality(open \ {i})
  <2>. HIDE DEF newer
  <2>. QED
    BY <1>3, <1>5, FS_Subset, FS_CardinalityType
<1>7. Cardinality(newer) < AlertWindow
  BY <1>5, <1>6, WindowIsNumber DEF open
<1>. QED
  BY <1>2, <1>7 DEF open, Matching, Window

LEMMA MatchingFound ==
    ASSUME AlertTypeOK, NEW p, Matching(p) # {}
    PROVE  /\ Max(Matching(p)) \in DOMAIN alerts
           /\ alerts[Max(Matching(p))].print = p /\ alerts[Max(Matching(p))].status = "OPEN"
<1>1. DOMAIN alerts = 1..Len(alerts) /\ Len(alerts) \in Nat
  BY AlertTypes
<1>2. Matching(p) \subseteq DOMAIN alerts
  BY DEF Matching, Window, OpenAlerts
<1>3. Matching(p) \in SUBSET (0..Len(alerts))
  BY <1>1, <1>2
<1>4. Max(Matching(p)) \in Matching(p)
  BY <1>1, <1>3, GreatestNumber
<1>. QED
  BY <1>2, <1>4 DEF Matching, Window, OpenAlerts

LEMMA MatchStep == ASSUME AlertInv, NEW f \in Filing, Match(f) PROVE AlertInv'
<1>. PICK c \in DetectorRow : c = detector[f]
  BY AlertTypes DEF AlertInv
<1>. PICK p \in Prints : p = c.print
  BY DEF DetectorRow
<1>1. c.stage = "match" /\ UNCHANGED <<filing, filed, dropped, alerts, review, enabled, events, judged>>
  BY DEF Match
<1>2. c.check \in 1..Len(Checks[Mine(f).table]) /\ c.check \in Nat /\ AlertTypeOK /\ ProgressKept
  BY <1>1 DEF AlertInv, ProgressKept, DetectorRow
<1>3. CASE enabled
  <2>. PICK i : i = IF Matching(p) = {} THEN 0 ELSE Max(Matching(p))
    OBVIOUS
  <2>. PICK n : n = IF Matching(p) = {} THEN 0 ELSE alerts[Max(Matching(p))].occurrences
    OBVIOUS
  <2>1. /\ i = 0 => Matching(p) = {} /\ n = 0
        /\ i # 0 => /\ i \in DOMAIN alerts /\ alerts[i].print = p /\ alerts[i].status = "OPEN"
                    /\ n = alerts[i].occurrences
    BY <1>2, MatchingFound, AlertTypes
  <2>2. i \in Nat /\ i <= Len(alerts) /\ n \in Nat
    BY <1>2, <2>1, AlertTypes DEF AlertRow
  <2>. PICK d : d = [c EXCEPT !.stage = "write", !.alert = i, !.seen = n]
    OBVIOUS
  <2>3. /\ d \in DetectorRow /\ d.stage = "write" /\ d.alert = i /\ d.seen = n
        /\ d.print = p /\ d.check = c.check /\ d.missed = c.missed
    <3>. DEFINE row == [stage |-> "write", check |-> c.check, print |-> c.print, alert |-> i,
                        seen |-> n, missed |-> c.missed]
    <3>1. row \in DetectorRow
      BY <2>2 DEF DetectorRow
    <3>2. d = row
      BY DEF DetectorRow
    <3>. QED
      BY <3>1, <3>2
  <2>4. /\ Step(f, d)
        /\ blurred' = IF Busy(p) \/ Cardinality(OpenAlerts(p.kind)) > AlertWindow
                      THEN blurred \union {p} ELSE blurred
    BY <1>3 DEF Match
  <2>5. Comes(f, d)
    BY <1>1, <1>2, <2>2, <2>3, <2>4 DEF Comes, Step
  <2>6. MayWrite(d, blurred')
    <3>0. i # 0 => n <= Cardinality(EventsOf(i))
      BY <2>1 DEF AlertInv, NeverMore
    <3>. SUFFICES ASSUME p \notin blurred', i = 0
                  PROVE  \A j \in DOMAIN alerts : alerts[j].print = p => alerts[j].status # "OPEN"
      BY <2>1, <2>3, <2>4, <3>0 DEF MayWrite
    <3>1. Cardinality(OpenAlerts(p.kind)) <= AlertWindow
      <4>1. ~(Cardinality(OpenAlerts(p.kind)) > AlertWindow)
        BY <2>4
      <4>2. IsFiniteSet(1..Len(alerts)) /\ DOMAIN alerts = 1..Len(alerts)
        BY <1>2, AlertTypes, FS_Interval
      <4>3. Cardinality(OpenAlerts(p.kind)) \in Nat
        <5>1. OpenAlerts(p.kind) \subseteq 1..Len(alerts)
          BY <4>2 DEF OpenAlerts
        <5>. QED
          BY <4>2, <5>1, FS_Subset, FS_CardinalityType
      <4>. QED
        BY <4>1, <4>3, WindowIsNumber
    <3>. QED
      BY <1>2, <2>1, <3>1, WindowSees
  <2>7. SeesShared(f, d)
    BY <1>1, <2>3, Looking DEF SeesShared, LookedAt, Looked, ToRaise
  <2>. QED
    BY <2>5, <2>6, <2>7, ComesStep
<1>4. CASE ~enabled
  <2>. PICK d : d = [NextCheck(f) EXCEPT !.missed = TRUE]
    OBVIOUS
  <2>1. Step(f, d) /\ blurred' = blurred
    BY <1>4 DEF Match
  <2>. QED
    BY <1>1, <1>2, <2>1, MissedStep
<1>. QED
  BY <1>3, <1>4

LEMMA DetectorFailsStep == ASSUME AlertInv, NEW f \in Filing, DetectorFails(f) PROVE AlertInv'
<1>1. UNCHANGED <<filing, filed, dropped, alerts, review, enabled, events, judged, blurred>>
  BY DEF DetectorFails
<1>2. CASE detector[f].stage = "write" /\ Step(f, [NextCheck(f) EXCEPT !.missed = TRUE])
  BY <1>1, <1>2, MissedStep
<1>3. CASE detector[f].stage \in {"check", "match"} /\ Step(f, [NoDetector EXCEPT !.stage = "done", !.missed = TRUE])
  <2>. PICK d : d = [NoDetector EXCEPT !.stage = "done", !.missed = TRUE]
    OBVIOUS
  <2>1. d \in DetectorRow /\ d.stage = "done" /\ d.missed /\ d.alert = 0
    <3>. DEFINE row == [stage |-> "done", check |-> 0, print |-> NoFingerprint, alert |-> 0, seen |-> 0,
                        missed |-> TRUE]
    <3>1. NoFingerprint \in Prints
      BY DEF NoFingerprint, Fingerprint, Prints, Kinds
    <3>2. row \in DetectorRow
      BY <3>1 DEF DetectorRow
    <3>3. d = row
      BY DEF NoDetector
    <3>4. row.stage = "done" /\ row.missed /\ row.alert = 0
      OBVIOUS
    <3>. HIDE DEF row
    <3>. QED
      BY ONLY <3>2, <3>3, <3>4
  <2>2. Comes(f, d)
    BY <1>1, <1>3, <2>1, AlertTypes DEF Comes, Step, AlertInv
  <2>. QED
    BY <2>1, <2>2, ComesStep DEF MayWrite, SeesShared, LookedAt
<1>. QED
  BY <1>2, <1>3 DEF DetectorFails

-----------------------------------------------------------------------------
(* A detector writes.                                                      *)
\* The row at gets the print p and the event ev; others keep theirs.
Written(f, p, at, ev) ==
    /\ alerts' \in Seq(AlertRow) /\ judged' \in Seq(SUBSET Event) /\ Len(judged') = Len(alerts')
    /\ Len(alerts') >= Len(alerts) /\ at \in Nat \ {0}
    /\ DOMAIN alerts' = DOMAIN alerts \union {at}
    /\ alerts'[at].print = p /\ alerts'[at].occurrences <= Cardinality(EventsOf(at)) + 1
    /\ \A i \in DOMAIN alerts : /\ i # at => alerts'[i] = alerts[i]
                                /\ alerts'[i].print = alerts[i].print
                                /\ alerts'[i].status = alerts[i].status
                                /\ judged'[i] = judged[i]
    /\ events' = events \union {ev} /\ ev \in Event /\ ev \notin events
    /\ ev.filing = f /\ ev.check = detector[f].check /\ ev.alert = at

\* With no other of the print under way the row was open or is new, and counts one more.
WrittenAlone(p, at) ==
    /\ alerts'[at].status = "OPEN"
    /\ alerts'[at].occurrences = Cardinality(EventsOf(at)) + 1
    /\ \A j \in DOMAIN alerts : j # at /\ alerts[j].print = p => alerts[j].status # "OPEN"

LEMMA WriteRows ==
    ASSUME AlertInv, NEW f \in Filing, Write(f)
    PROVE  \E at \in Nat, ev \in Event :
              /\ Written(f, detector[f].print, at, ev)
              /\ detector[f].print \notin blurred => WrittenAlone(detector[f].print, at)
<1>. PICK d \in DetectorRow : d = detector[f]
  BY AlertTypes DEF AlertInv
<1>. PICK p \in Prints : p = d.print
  BY DEF DetectorRow
<1>. PICK n \in Nat : n = Len(alerts)
  BY AlertTypes DEF AlertInv
<1>. DEFINE at == IF d.alert = 0 THEN n + 1 ELSE d.alert
            ev == [filing |-> f, check |-> d.check, alert |-> at]
<1>1. /\ AlertTypeOK /\ ProgressKept /\ d.stage = "write" /\ Writing(f)
      /\ alerts \in Seq(AlertRow) /\ judged \in Seq(SUBSET Event) /\ Len(judged) = n
      /\ DOMAIN alerts = 1..n
  BY AlertTypes DEF AlertInv, AlertTypeOK, Write, Writing
<1>2. d.alert \in 0..n /\ d.check \in Nat /\ d.seen \in Nat
  BY <1>1 DEF AlertTypeOK, DetectorRow
<1>3. /\ alerts' = IF d.alert = 0
                   THEN Append(alerts, [print |-> p, status |-> "OPEN", occurrences |-> 1])
                   ELSE [alerts EXCEPT ![at].occurrences = d.seen + 1]
      /\ judged' = IF d.alert = 0 THEN Append(judged, {}) ELSE judged
      /\ events' = events \union {ev}
  BY DEF Write
<1>4. at \in Nat \ {0} /\ ev \in Event /\ ev.filing = f /\ ev.check = d.check /\ ev.alert = at
  BY <1>2 DEF Event
<1>5. ev \notin events
  BY <1>1, <1>2, <1>4 DEF ProgressKept
<1>6. p \notin blurred => \A j \in DOMAIN alerts : j # at /\ alerts[j].print = p => alerts[j].status # "OPEN"
  <2>. SUFFICES ASSUME p \notin blurred, NEW j \in DOMAIN alerts, j # at, alerts[j].print = p,
                       alerts[j].status = "OPEN"
                PROVE  FALSE
    OBVIOUS
  <2>1. d.alert # 0
    BY <1>1 DEF AlertInv, WritesFit
  <2>2. d.alert \in DOMAIN alerts /\ alerts[d.alert].print = p /\ alerts[d.alert].status = "OPEN" /\ at = d.alert
    BY <1>1, <1>2, <2>1 DEF AlertInv, WritesFit
  <2>. QED
    BY <2>2 DEF AlertInv, CountsKept
<1>7. CASE d.alert = 0
  <2>. DEFINE row == [print |-> p, status |-> "OPEN", occurrences |-> 1]
  <2>1. row \in AlertRow /\ row.print = p /\ row.status = "OPEN" /\ row.occurrences = 1
    BY DEF AlertRow
  <2>2. alerts' = Append(alerts, row) /\ judged' = Append(judged, {}) /\ at = n + 1
    BY <1>3, <1>7
  <2>3. {} \in SUBSET Event
    OBVIOUS
  <2>. HIDE DEF row
  <2>4. /\ alerts' \in Seq(AlertRow) /\ Len(alerts') = n + 1 /\ alerts'[n + 1] = row
        /\ \A i \in 1..n : alerts'[i] = alerts[i]
    BY <1>1, <2>1, <2>2
  <2>5. /\ judged' \in Seq(SUBSET Event) /\ Len(judged') = n + 1
        /\ \A i \in 1..n : judged'[i] = judged[i]
    BY <1>1, <2>2, <2>3
  <2>6. DOMAIN alerts' = 1..(n + 1)
    BY <2>4
  <2>7. 1..(n + 1) = (1..n) \union {at}
    BY <2>2
  <2>8. EventsOf(at) = {}
    BY <1>1, <2>2 DEF EventsOf, ProgressKept
  <2>9. Cardinality(EventsOf(at)) = 0
    BY <2>8, FS_EmptySet
  <2>10. Written(f, p, at, ev)
    <3>1. row.occurrences <= Cardinality(EventsOf(at)) + 1
      BY <2>1, <2>9
    <3>. HIDE DEF ev, at
    <3>. QED
      BY <1>1, <1>3, <1>4, <1>5, <2>1, <2>2, <2>4, <2>5, <2>6, <2>7, <3>1 DEF Written
  <2>11. p \notin blurred => WrittenAlone(p, at)
    <3>. HIDE DEF ev, at
    <3>. QED
      BY <1>6, <2>1, <2>2, <2>4, <2>9 DEF WrittenAlone
  <2>. QED
    BY <1>4, <2>10, <2>11
<1>8. CASE d.alert # 0
  <2>1. at = d.alert /\ at \in 1..n /\ alerts[at] \in AlertRow
    BY <1>1, <1>2, <1>8, AlertTypes
  <2>2. alerts' = [alerts EXCEPT ![at].occurrences = d.seen + 1] /\ judged' = judged
    BY <1>3, <1>8
  <2>. PICK row : row = [alerts[at] EXCEPT !.occurrences = d.seen + 1]
    OBVIOUS
  <2>3. row \in AlertRow /\ row.print = alerts[at].print /\ row.status = alerts[at].status
        /\ row.occurrences = d.seen + 1
    <3>. PICK a \in AlertRow : a = alerts[at]
      BY <2>1
    <3>. PICK m : m = d.seen + 1
      OBVIOUS
    <3>1. m \in Nat \ {0}
      BY <1>2
    <3>2. row = [a EXCEPT !.occurrences = m]
      OBVIOUS
    <3>. QED
      BY <3>1, <3>2 DEF AlertRow
  <2>. HIDE DEF at
  <2>4. alerts' = [alerts EXCEPT ![at] = row]
    BY <2>2
  <2>5. /\ alerts' \in Seq(AlertRow) /\ Len(alerts') = n /\ DOMAIN alerts' = 1..n
        /\ alerts'[at] = row /\ \A i \in 1..n : i # at => alerts'[i] = alerts[i]
    <3>1. alerts \in [1..n -> AlertRow]
      BY <1>1
    <3>2. alerts' \in [1..n -> AlertRow] /\ alerts'[at] = row /\ \A i \in 1..n : i # at => alerts'[i] = alerts[i]
      BY <2>1, <2>3, <2>4, <3>1
    <3>3. alerts' \in Seq(AlertRow) /\ Len(alerts') = n /\ DOMAIN alerts' = 1..n
      BY <3>2
    <3>. QED
      BY <3>2, <3>3
  <2>6. alerts[at].print = p
    BY <1>1, <1>8, <2>1 DEF AlertInv, WritesFit
  <2>7. Written(f, p, at, ev)
    <3>1. DOMAIN alerts' = DOMAIN alerts \union {at}
      BY <1>1, <2>1, <2>5
    <3>2. IsFiniteSet(EventsOf(at)) /\ Cardinality(EventsOf(at)) \in Nat
      <4>1. EventsOf(at) \subseteq events
        BY DEF EventsOf
      <4>. QED
        BY <1>1, <4>1, FS_Subset, FS_CardinalityType DEF ProgressKept
    <3>3. d.seen <= Cardinality(EventsOf(at))
      BY <1>1, <1>8, <2>1 DEF AlertInv, NeverMore
    <3>4. row.occurrences <= Cardinality(EventsOf(at)) + 1
      BY <1>2, <2>3, <3>2, <3>3
    <3>. HIDE DEF ev
    <3>. QED
      BY <1>1, <1>3, <1>4, <1>5, <2>1, <2>2, <2>3, <2>5, <2>6, <3>1, <3>4 DEF Written
  <2>8. p \notin blurred => WrittenAlone(p, at)
    <3>. SUFFICES ASSUME p \notin blurred PROVE WrittenAlone(p, at)
      OBVIOUS
    <3>1. alerts[at].status = "OPEN" /\ d.seen = alerts[at].occurrences
      BY <1>1, <1>8, <2>1 DEF AlertInv, WritesFit
    <3>2. alerts[at].occurrences = Cardinality(EventsOf(at))
      BY <1>1, <2>1, <2>6 DEF AlertInv, CountsKept
    <3>. QED
      BY <1>6, <2>3, <2>5, <3>1, <3>2 DEF WrittenAlone
  <2>. QED
    BY <1>4, <2>7, <2>8
<1>. QED
  BY <1>7, <1>8

LEMMA WriteStep == ASSUME AlertInv, NEW f \in Filing, Write(f) PROVE AlertInv'
<1>. PICK c \in DetectorRow, p \in Prints : c = detector[f] /\ p = c.print
  BY AlertTypes DEF AlertInv, DetectorRow
<1>. PICK at \in Nat, ev \in Event :
         /\ Written(f, p, at, ev) /\ (p \notin blurred => WrittenAlone(p, at))
  BY WriteRows
<1>. PICK d \in DetectorRow : d = NextCheck(f)
  BY NextRow
<1>1. /\ AlertTypeOK /\ ProgressKept /\ c.stage = "write" /\ Writing(f)
      /\ UNCHANGED <<filing, filed, dropped, review, enabled, blurred>>
      /\ detector \in [Filing -> DetectorRow] /\ detector' = [detector EXCEPT ![f] = d]
      /\ detector'[f] = d /\ \A g \in Filing : g # f => detector'[g] = detector[g]
  BY DEF AlertInv, AlertTypeOK, Write, Writing, Step
<1>2. c.check \in 1..Len(Checks[Mine(f).table]) /\ c.check \in Nat /\ f \in filed
  BY <1>1 DEF ProgressKept, DetectorRow
<1>3. /\ d.alert = 0 /\ d.stage \in {"check", "done"} /\ (d.stage = "check" => d.check = c.check + 1)
      /\ (c.check = Len(Checks[Mine(f).table]) => d.stage = "done") /\ d.check \in Nat
  BY NextRow DEF DetectorRow
<1>4. /\ Len(alerts) \in Nat /\ Len(alerts') \in Nat /\ Len(alerts) <= Len(alerts')
      /\ DOMAIN alerts' = 1..Len(alerts') /\ DOMAIN alerts = 1..Len(alerts) /\ at \in DOMAIN alerts'
  <2>1. Len(alerts) \in Nat /\ DOMAIN alerts = 1..Len(alerts)
    BY <1>1, AlertTypes
  <2>2. alerts' \in Seq(AlertRow) /\ Len(alerts) <= Len(alerts') /\ at \in DOMAIN alerts'
    BY DEF Written
  <2>. QED
    BY <2>1, <2>2
<1>5. AlertTypeOK'
  <2>1. \A g \in Filing : detector'[g].alert <= Len(alerts')
    <3>. TAKE g \in Filing
    <3>1. detector[g].alert \in Nat /\ detector[g].alert <= Len(alerts)
      BY <1>1, AlertTypes DEF AlertTypeOK, DetectorRow
    <3>. QED
      BY <1>1, <1>3, <1>4, <3>1
  <2>2. \A v \in Reviewer : /\ review[v].alert <= Len(alerts')
                            /\ review[v].alert # 0 => review[v].seen # 0
    <3>. TAKE v \in Reviewer
    <3>1. review[v].alert \in Nat /\ review[v].alert <= Len(alerts)
      BY <1>1, AlertTypes DEF AlertTypeOK, ReviewRow
    <3>. QED
      BY <1>1, <1>4, <3>1 DEF AlertTypeOK
  <2>3. detector' \in [Filing -> DetectorRow] /\ events' \subseteq Event
    BY <1>1 DEF AlertTypeOK, Written
  <2>. QED
    BY <1>1, <2>1, <2>2, <2>3 DEF AlertTypeOK, Written
<1>6. ProgressKept'
  <2>1. IsFiniteSet(events')
    BY <1>1, FS_AddElement DEF ProgressKept, Written
  <2>2. \A g \in Filing : /\ detector'[g].stage = "new" <=> g \notin filed
                          /\ detector'[g].stage \in {"check", "match", "write"} =>
                                detector'[g].check \in 1..Len(Checks[Mine(g).table])
    <3>. TAKE g \in Filing
    <3>1. CASE g = f
      BY <1>1, <1>2, <1>3, <3>1
    <3>2. CASE g # f
      BY <1>1, <3>2 DEF ProgressKept
    <3>. QED
      BY <3>1, <3>2
  <2>3. \A e \in events' : /\ e.filing \in filed /\ e.alert \in DOMAIN alerts'
                           /\ detector'[e.filing].stage = "done" \/ e.check < detector'[e.filing].check
    <3>. TAKE e \in events'
    <3>1. CASE e = ev
      BY <1>1, <1>2, <1>3, <1>4, <3>1 DEF Written
    <3>2. CASE e \in events
      <4>1. /\ e.filing \in Filing /\ e.check \in Nat /\ e.filing \in filed /\ e.alert \in DOMAIN alerts
            /\ detector[e.filing].stage = "done" \/ e.check < detector[e.filing].check
        BY <1>1, <3>2 DEF AlertTypeOK, ProgressKept, Event
      <4>2. e.alert \in DOMAIN alerts'
        BY <4>1 DEF Written
      <4>3. detector'[e.filing].stage = "done" \/ e.check < detector'[e.filing].check
        BY <1>1, <1>2, <1>3, <4>1
      <4>. QED
        BY <4>1, <4>2, <4>3
    <3>. QED
      BY <3>1, <3>2 DEF Written
  <2>. QED
    BY <1>1, <2>1, <2>2, <2>3 DEF ProgressKept, Mine
<1>7. \A v \in Reviewer : Reviewing(v) => alerts'[review[v].alert].print = ReviewedPrint(v)
  BY <1>1, AlertTypes DEF Written, ReviewedPrint
<1>8. Alone'
  BY <1>1, <1>3, <1>7 DEF AlertInv, Alone, Writing, Reviewing, ReviewedPrint
\* Others under way are about other prints.
<1>9. WritesFit'
  <2>. SUFFICES ASSUME NEW g \in Filing, detector'[g].stage = "write"
                PROVE  LET q == detector'[g].print
                           i == detector'[g].alert
                       IN  /\ i # 0 => alerts'[i].print = q
                           /\ q \notin blurred =>
                                 /\ i # 0 => alerts'[i].status = "OPEN" /\ detector'[g].seen = alerts'[i].occurrences
                                 /\ i = 0 => \A j \in DOMAIN alerts' : alerts'[j].print = q => alerts'[j].status # "OPEN"
    BY <1>1 DEF WritesFit, Writing
  <2>. PICK q, i : q = detector[g].print /\ i = detector[g].alert
    OBVIOUS
  <2>1. g # f /\ detector'[g] = detector[g] /\ Writing(g)
    BY <1>1, <1>3 DEF Writing
  <2>2. i # 0 => i \in DOMAIN alerts /\ alerts[i].print = q
    <3>1. i \in Nat /\ i <= Len(alerts)
      BY <1>1, AlertTypes DEF AlertTypeOK, DetectorRow
    <3>. QED
      BY <1>4, <2>1, <3>1 DEF AlertInv, WritesFit
  <2>3. q \notin blurred => q # p
    BY <1>1, <2>1 DEF AlertInv, Alone
  <2>4. q \notin blurred /\ i # 0 => i # at /\ alerts[i].status = "OPEN" /\ detector[g].seen = alerts[i].occurrences
    BY <2>1, <2>2, <2>3 DEF AlertInv, WritesFit, Written
  <2>5. ASSUME q \notin blurred, i = 0, NEW j \in DOMAIN alerts', alerts'[j].print = q
        PROVE  alerts'[j].status # "OPEN"
    <3>1. j # at /\ j \in DOMAIN alerts /\ alerts[j].print = q /\ alerts'[j].status = alerts[j].status
      BY <2>3, <2>5 DEF Written
    <3>. QED
      BY <2>1, <2>5, <3>1 DEF AlertInv, WritesFit
  <2>. QED
    BY <2>1, <2>2, <2>4, <2>5 DEF Written
<1>10. \A i \in Nat : i # at => EventsOf(i)' = EventsOf(i)
  BY DEF EventsOf, Written
<1>11. ReviewsFit'
  <2>. SUFFICES ASSUME NEW v \in Reviewer, Reviewing(v), ReviewedPrint(v) \notin blurred
                PROVE  LET i == review[v].alert
                       IN  /\ alerts'[i].status = "OPEN" /\ review[v].seen = alerts'[i].occurrences
                           /\ review[v].knows = EventsOf(i)'
    BY <1>1, <1>7 DEF ReviewsFit, Reviewing, ReviewedPrint
  <2>. PICK i : i = review[v].alert
    OBVIOUS
  <2>1. i \in DOMAIN alerts /\ alerts[i].print # p /\ i \in Nat
    BY <1>1, <1>4, AlertTypes DEF AlertInv, Alone, ReviewedPrint
  <2>2. i # at
    BY <2>1 DEF Written
  <2>3. alerts[i].status = "OPEN" /\ review[v].seen = alerts[i].occurrences /\ review[v].knows = EventsOf(i)
    BY DEF AlertInv, ReviewsFit
  <2>4. alerts'[i] = alerts[i] /\ EventsOf(i)' = EventsOf(i)
    BY <1>10, <2>1, <2>2 DEF Written
  <2>. QED
    BY <1>1, <2>3, <2>4
<1>12. CountsKept'
  <2>. SUFFICES ASSUME NEW i \in DOMAIN alerts', alerts'[i].print \notin blurred
                PROVE  /\ alerts'[i].occurrences = Cardinality(EventsOf(i)')
                       /\ alerts'[i].status = "OPEN" \/ EventsOf(i)' = judged'[i]
                       /\ \A j \in DOMAIN alerts' :
                             i # j /\ alerts'[j].print = alerts'[i].print =>
                                 "OPEN" \notin {alerts'[i].status} \intersect {alerts'[j].status}
    BY <1>1 DEF CountsKept
  <2>1. CASE i = at
    <3>1. p \notin blurred /\ WrittenAlone(p, at)
      BY <2>1 DEF Written
    <3>2. EventsOf(at)' = EventsOf(at) \union {ev} /\ ev \notin EventsOf(at)
      BY DEF EventsOf, Written
    <3>3. IsFiniteSet(EventsOf(at))
      <4>1. EventsOf(at) \subseteq events
        BY DEF EventsOf
      <4>. QED
        BY <1>1, <4>1, FS_Subset DEF ProgressKept
    <3>4. Cardinality(EventsOf(at)') = Cardinality(EventsOf(at)) + 1
      BY <3>2, <3>3, FS_AddElement
    <3>5. \A j \in DOMAIN alerts' : j # at /\ alerts'[j].print = p => alerts'[j].status # "OPEN"
      BY <3>1 DEF Written, WrittenAlone
    <3>6. alerts'[at].print = p /\ alerts'[at].status = "OPEN" /\ alerts'[at].occurrences = Cardinality(EventsOf(at)) + 1
      BY <3>1 DEF Written, WrittenAlone
    <3>. QED
      BY <2>1, <3>4, <3>5, <3>6
  <2>2. CASE i # at
    <3>1. i \in DOMAIN alerts /\ alerts'[i] = alerts[i] /\ judged'[i] = judged[i] /\ EventsOf(i)' = EventsOf(i)
      BY <1>4, <1>10, <2>2 DEF Written
    <3>2. /\ alerts[i].occurrences = Cardinality(EventsOf(i))
          /\ alerts[i].status = "OPEN" \/ EventsOf(i) = judged[i]
          /\ \A j \in DOMAIN alerts :
                i # j /\ alerts[j].print = alerts[i].print =>
                    "OPEN" \notin {alerts[i].status} \intersect {alerts[j].status}
      BY <1>1, <3>1 DEF AlertInv, CountsKept
    <3>3. alerts[i].print = p => alerts[i].status # "OPEN"
      BY <2>2, <3>1 DEF WrittenAlone
    <3>4. \A j \in DOMAIN alerts' : i # j /\ alerts'[j].print = alerts[i].print =>
              "OPEN" \notin {alerts[i].status} \intersect {alerts'[j].status}
      BY <3>2, <3>3 DEF Written
    <3>. QED
      BY <3>1, <3>2, <3>4
  <2>. QED
    BY <2>1, <2>2
<1>13. LastLookSees'
  <2>1. \A g \in Filing : Raising(g) => Raising(g)'
    <3>. SUFFICES ASSUME NEW g \in Filing, NEW e \in events, e.filing = g, alerts[e.alert].print.kind \in Shared
                  PROVE  \E x \in events' : x.filing = g /\ alerts'[x.alert].print.kind \in Shared
      BY DEF Raising
    <3>1. e.alert \in DOMAIN alerts
      BY <1>1 DEF ProgressKept
    <3>. QED
      BY <3>1 DEF Written
  <2>2. ToRaise(f, c) => Raising(f)'
    BY DEF ToRaise, Raising, Written
  <2>3. Compared(f) /\ LookedAt(f, d) => Looked(f)
    BY <1>1, NextLooked
  <2>. SUFFICES ASSUME NEW g \in filed, NEW h \in filed, Compared(g), h \in Others(g), g \in Others(h),
                       LookedAt(g, detector'[g]), LookedAt(h, detector'[h])
                PROVE  \/ Raising(g)' \/ ToRaise(g, detector'[g])
                       \/ Raising(h)' \/ ToRaise(h, detector'[h])
    BY <1>1 DEF LastLookSees, Compared, Others, Counts, SameMark, Peers, Mine, Looked, LookedAt, LooksAt,
                WillRaise, Raising, ToRaise
  <2>4. g \in Filing /\ h \in Filing /\ g # h
    BY <1>1 DEF AlertTypeOK, Others
  <2>5. Compared(h)
    BY DEF Compared, Others, SameMark, Peers
  <2>6. Looked(g) /\ Looked(h) => WillRaise(g) \/ WillRaise(h)
    BY DEF AlertInv, LastLookSees
  <2>7. \A k \in {g, h} : /\ Looked(k)
                          /\ WillRaise(k) => Raising(k)' \/ ToRaise(k, detector'[k])
    <3>. TAKE k \in {g, h}
    <3>1. CASE k = f
      BY <1>1, <2>1, <2>2, <2>3, <2>4, <2>5, <3>1, Looking
    <3>2. CASE k # f
      BY <1>1, <2>1, <2>4, <3>2, Looking
    <3>. QED
      BY <3>1, <3>2
  <2>. QED
    BY <2>6, <2>7
<1>14. NeverMore'
  <2>. DEFINE After(i) == {e \in events' : e.alert = i}
  <2>0. \A i \in Nat : EventsOf(i)' = After(i)
    BY DEF EventsOf
  <2>1. IsFiniteSet(events)
    BY <1>1 DEF ProgressKept
  <2>2. \A i \in Nat : IsFiniteSet(EventsOf(i)) /\ Cardinality(EventsOf(i)) \in Nat
    <3>. SUFFICES ASSUME NEW i \in Nat PROVE IsFiniteSet(EventsOf(i)) /\ Cardinality(EventsOf(i)) \in Nat
      OBVIOUS
    <3>1. EventsOf(i) \subseteq events
      BY DEF EventsOf
    <3>. QED
      BY <2>1, <3>1, FS_Subset, FS_CardinalityType
  <2>3. EventsOf(at)' = EventsOf(at) \union {ev} /\ ev \notin EventsOf(at)
    BY DEF EventsOf, Written
  <2>4. Cardinality(EventsOf(at)') = Cardinality(EventsOf(at)) + 1
    BY <2>2, <2>3, FS_AddElement
  <2>5. ASSUME NEW i \in Nat, NEW n \in Nat, n <= Cardinality(EventsOf(i))
        PROVE  n <= Cardinality(After(i))
    <3>1. CASE i = at
      <4>1. Cardinality(After(i)) = Cardinality(EventsOf(i)) + 1
        BY <2>0, <2>4, <3>1
      <4>. HIDE DEF After
      <4>. QED
        BY <2>2, <2>5, <4>1
    <3>2. CASE i # at
      <4>1. After(i) = EventsOf(i)
        BY <1>10, <2>0, <3>2
      <4>. HIDE DEF After
      <4>. QED
        BY <2>5, <4>1
    <3>. QED
      BY <3>1, <3>2
  <2>6. ASSUME NEW i \in DOMAIN alerts' PROVE alerts'[i].occurrences <= Cardinality(EventsOf(i)')
    <3>1. CASE i = at
      BY <2>4, <3>1 DEF Written
    <3>2. CASE i # at
      <4>1. i \in DOMAIN alerts /\ i \in Nat /\ alerts'[i] = alerts[i] /\ EventsOf(i)' = EventsOf(i)
        BY <1>4, <1>10, <3>2 DEF Written
      <4>. QED
        BY <4>1 DEF AlertInv, NeverMore
    <3>. QED
      BY <3>1, <3>2
  <2>7. ASSUME NEW g \in Filing, detector'[g].stage = "write", detector'[g].alert # 0
        PROVE  detector'[g].seen <= Cardinality(After(detector'[g].alert))
    <3>1. g # f /\ detector'[g] = detector[g] /\ Writing(g)
      BY <1>1, <1>3, <2>7 DEF Writing
    <3>. PICK i, n : i = detector[g].alert /\ n = detector[g].seen
      OBVIOUS
    <3>2. i \in Nat /\ n \in Nat
      BY <1>1, AlertTypes DEF DetectorRow
    <3>3. n <= Cardinality(EventsOf(i))
      BY <2>7, <3>1 DEF AlertInv, NeverMore
    <3>4. n <= Cardinality(After(i))
      <4>. HIDE DEF After
      <4>. QED
        BY <2>5, <3>2, <3>3
    <3>. QED
      BY <3>1, <3>4
  <2>8. ASSUME NEW v \in Reviewer, Reviewing(v)
        PROVE  review[v].seen <= Cardinality(After(review[v].alert))
    <3>. PICK i, n : i = review[v].alert /\ n = review[v].seen
      OBVIOUS
    <3>1. i \in Nat /\ n \in Nat
      BY <1>1, AlertTypes DEF ReviewRow
    <3>2. n <= Cardinality(EventsOf(i))
      BY <2>8 DEF AlertInv, NeverMore
    <3>3. n <= Cardinality(After(i))
      <4>. HIDE DEF After
      <4>. QED
        BY <2>5, <3>1, <3>2
    <3>. QED
      BY <3>3
  <2>9. \A i \in DOMAIN alerts' : alerts'[i].occurrences <= Cardinality(EventsOf(i)')
    BY <2>6
  <2>10. \A g \in Filing : detector'[g].stage = "write" /\ detector'[g].alert # 0 =>
            detector'[g].seen <= Cardinality(After(detector'[g].alert))
    BY <2>7
  <2>11. \A v \in Reviewer : review'[v].alert # 0 =>
            review'[v].seen <= Cardinality(After(review'[v].alert))
    BY <1>1, <2>8 DEF Reviewing
  <2>. QED
    BY <2>9, <2>10, <2>11 DEF NeverMore, Writing, Reviewing, EventsOf
<1>. QED
  BY <1>5, <1>6, <1>8, <1>9, <1>11, <1>12, <1>13, <1>14 DEF AlertInv

-----------------------------------------------------------------------------
(* Reviews.                                                                *)
LEMMA ReviewRows ==
    ASSUME AlertTypeOK, NEW v \in Reviewer, NEW r \in ReviewRow, review' = [review EXCEPT ![v] = r]
    PROVE  /\ review' \in [Reviewer -> ReviewRow] /\ review'[v] = r
           /\ \A w \in Reviewer : w # v => review'[w] = review[w]
  BY DEF AlertTypeOK

LEMMA BeginReviewStep ==
    ASSUME AlertInv, NEW v \in Reviewer, NEW i \in DOMAIN alerts, BeginReview(v, i) PROVE AlertInv'
<1>. DEFINE r == [alert |-> i, seen |-> alerts[i].occurrences, knows |-> EventsOf(i)]
<1>1. /\ review[v].alert = 0 /\ alerts[i].status = "OPEN" /\ review' = [review EXCEPT ![v] = r]
      /\ blurred' = IF Busy(alerts[i].print) THEN blurred \union {alerts[i].print} ELSE blurred
      /\ UNCHANGED <<filing, filed, dropped, detector, alerts, enabled, events, judged>>
  BY DEF BeginReview
<1>2. AlertTypeOK /\ DOMAIN alerts = 1..Len(alerts) /\ Len(alerts) \in Nat /\ alerts[i] \in AlertRow
  BY AlertTypes DEF AlertInv
<1>3. EventsOf(i) \subseteq Event /\ i \in Nat \ {0} /\ i <= Len(alerts) /\ alerts[i].occurrences \in Nat \ {0}
  BY <1>2 DEF AlertTypeOK, EventsOf, AlertRow
<1>4. r \in ReviewRow /\ r.alert = i /\ r.seen = alerts[i].occurrences /\ r.knows = EventsOf(i)
  BY <1>3 DEF ReviewRow
<1>. HIDE DEF r
<1>5. /\ review' \in [Reviewer -> ReviewRow] /\ review'[v] = r
      /\ \A w \in Reviewer : w # v => review'[w] = review[w]
  BY <1>1, <1>2, <1>4, ReviewRows
<1>6. AlertTypeOK'
  BY <1>1, <1>2, <1>3, <1>4, <1>5 DEF AlertTypeOK
<1>7. ProgressKept'
  BY <1>1 DEF AlertInv, ProgressKept, Mine
<1>8. Alone'
  BY <1>1, <1>3, <1>4, <1>5 DEF AlertInv, Alone, Busy, Writing, Reviewing, ReviewedPrint
<1>9. WritesFit' /\ CountsKept'
  BY <1>1 DEF AlertInv, WritesFit, CountsKept, Writing, EventsOf
<1>10. ReviewsFit'
  <2>. SUFFICES ASSUME NEW w \in Reviewer, NEW j, j = review'[w].alert, j # 0, alerts[j].print \notin blurred
                PROVE  /\ alerts[j].status = "OPEN" /\ review'[w].seen = alerts[j].occurrences
                       /\ review'[w].knows = EventsOf(j)
    BY <1>1 DEF ReviewsFit, Reviewing, ReviewedPrint, EventsOf
  <2>1. CASE w = v
    BY <1>1, <1>4, <1>5, <2>1
  <2>2. CASE w # v
    BY <1>5, <2>2 DEF AlertInv, ReviewsFit, Reviewing, ReviewedPrint
  <2>. QED
    BY <2>1, <2>2
<1>11. LastLookSees'
  BY <1>1 DEF AlertInv, LastLookSees, Compared, Others, Counts, SameMark, Peers, Mine, Looked, LooksAt, WillRaise
<1>12. NeverMore'
  BY <1>1, <1>4, <1>5 DEF AlertInv, NeverMore, Writing, Reviewing, EventsOf
<1>. QED
  BY <1>6, <1>7, <1>8, <1>9, <1>10, <1>11, <1>12 DEF AlertInv

\* A review that ends, with or without its decision, takes itself out.
LEMMA NoReviewRow == NoReview \in ReviewRow /\ NoReview.alert = 0
  BY DEF NoReview, ReviewRow

LEMMA ReviewFailsStep == ASSUME AlertInv, NEW v \in Reviewer, ReviewFails(v) PROVE AlertInv'
<1>1. /\ review' = [review EXCEPT ![v] = NoReview]
      /\ UNCHANGED <<filing, filed, dropped, detector, alerts, enabled, events, judged, blurred>>
  BY DEF ReviewFails
<1>2. /\ review' \in [Reviewer -> ReviewRow] /\ review'[v].alert = 0
      /\ \A w \in Reviewer : w # v => review'[w] = review[w]
  BY <1>1, ReviewRows, NoReviewRow DEF AlertInv
<1>3. AlertTypeOK'
  <2>1. Len(alerts) \in Nat
    BY AlertTypes DEF AlertInv
  <2>. QED
    BY <1>1, <1>2, <2>1 DEF AlertInv, AlertTypeOK
<1>4. ProgressKept'
  BY <1>1 DEF AlertInv, ProgressKept, Mine
<1>5. Alone'
  BY <1>1, <1>2 DEF AlertInv, Alone, Writing, Reviewing, ReviewedPrint
<1>6. WritesFit' /\ CountsKept'
  BY <1>1 DEF AlertInv, WritesFit, CountsKept, Writing, EventsOf
<1>7. ReviewsFit'
  BY <1>1, <1>2 DEF AlertInv, ReviewsFit, Reviewing, ReviewedPrint, EventsOf
<1>8. LastLookSees'
  BY <1>1 DEF AlertInv, LastLookSees, Compared, Others, Counts, SameMark, Peers, Mine, Looked, LooksAt, WillRaise
<1>9. NeverMore'
  BY <1>1, <1>2 DEF AlertInv, NeverMore, Writing, Reviewing, EventsOf
<1>. QED
  BY <1>3, <1>4, <1>5, <1>6, <1>7, <1>8, <1>9 DEF AlertInv

LEMMA CommitReviewStep == ASSUME AlertInv, NEW v \in Reviewer, CommitReview(v) PROVE AlertInv'
<1>. PICK r \in ReviewRow : r = review[v]
  BY AlertTypes DEF AlertInv
<1>. PICK i : i = r.alert
  OBVIOUS
<1>. PICK a \in AlertRow : a = alerts[i]
  BY AlertTypes DEF AlertInv, CommitReview, Reviewing
<1>1. /\ AlertTypeOK /\ i # 0 /\ Reviewing(v) /\ ReviewedPrint(v) = a.print
      /\ i \in DOMAIN alerts /\ DOMAIN alerts = 1..Len(alerts) /\ Len(alerts) \in Nat
      /\ alerts \in [1..Len(alerts) -> AlertRow] /\ judged \in [1..Len(alerts) -> SUBSET Event]
  BY AlertTypes DEF AlertInv, AlertTypeOK, CommitReview, Reviewing, ReviewedPrint
<1>2. /\ judged' = [judged EXCEPT ![i] = r.knows] /\ review' = [review EXCEPT ![v] = NoReview]
      /\ alerts' = [alerts EXCEPT ![i].status = "DECIDED", ![i].occurrences = r.seen]
      /\ UNCHANGED <<filing, filed, dropped, detector, enabled, events, blurred>>
  BY DEF CommitReview
<1>3. r.seen \in Nat \ {0} /\ r.knows \in SUBSET Event
  BY <1>1 DEF AlertTypeOK, ReviewRow
<1>4. alerts'[i].print = a.print /\ alerts'[i].status = "DECIDED" /\ alerts'[i].occurrences = r.seen
  BY <1>1, <1>2 DEF AlertRow
<1>5. alerts' \in [1..Len(alerts) -> AlertRow]
  BY <1>1, <1>2, <1>3 DEF AlertRow
<1>6. \A j \in DOMAIN alerts : j # i => alerts'[j] = alerts[j]
  BY <1>1, <1>2
<1>7. /\ alerts' \in Seq(AlertRow) /\ Len(alerts') = Len(alerts) /\ DOMAIN alerts' = DOMAIN alerts
  BY <1>1, <1>5
<1>8. \A j \in DOMAIN alerts : alerts'[j].print = alerts[j].print
  BY <1>4, <1>6
<1>9. /\ judged' \in [1..Len(alerts) -> SUBSET Event] /\ judged'[i] = r.knows
      /\ \A j \in DOMAIN alerts : j # i => judged'[j] = judged[j]
  BY <1>1, <1>2, <1>3
<1>10. judged' \in Seq(SUBSET Event) /\ Len(judged') = Len(alerts)
  BY <1>1, <1>9
<1>11. /\ review' \in [Reviewer -> ReviewRow] /\ review'[v].alert = 0
       /\ \A w \in Reviewer : w # v => review'[w] = review[w]
  BY <1>1, <1>2, ReviewRows, NoReviewRow
<1>12. AlertTypeOK'
  BY <1>1, <1>2, <1>7, <1>10, <1>11 DEF AlertTypeOK
<1>13. ProgressKept'
  BY <1>2, <1>7 DEF AlertInv, ProgressKept, Mine
<1>14. \A w \in Reviewer : Reviewing(w) => review[w].alert \in DOMAIN alerts
  BY <1>1, AlertTypes
<1>15. Alone'
  BY <1>2, <1>8, <1>11, <1>14 DEF AlertInv, Alone, Writing, Reviewing, ReviewedPrint
<1>16. WritesFit'
  <2>00. UNCHANGED <<detector, blurred>>
    BY <1>2
  <2>. SUFFICES ASSUME NEW f \in Filing, detector'[f].stage = "write"
                PROVE  LET p == detector'[f].print
                           k == detector'[f].alert
                       IN  /\ k # 0 => alerts'[k].print = p
                           /\ p \notin blurred =>
                                 /\ k # 0 => /\ alerts'[k].status = "OPEN"
                                             /\ detector'[f].seen = alerts'[k].occurrences
                                 /\ k = 0 => \A j \in DOMAIN alerts' :
                                       alerts'[j].print = p => alerts'[j].status # "OPEN"
    BY <2>00 DEF WritesFit, Writing
  <2>. PICK p, k : p = detector[f].print /\ k = detector[f].alert
    OBVIOUS
  <2>0. Writing(f) /\ detector'[f] = detector[f]
    BY <2>00 DEF Writing
  <2>1. k # 0 => k \in DOMAIN alerts /\ alerts[k].print = p
    <3>1. k \in Nat /\ k <= Len(alerts)
      BY <1>1, AlertTypes DEF AlertTypeOK, DetectorRow
    <3>. QED
      BY <1>1, <2>0, <3>1 DEF AlertInv, WritesFit
  <2>2. p \notin blurred => p # a.print
    BY <1>1, <2>0 DEF AlertInv, Alone
  <2>3. p \notin blurred /\ k # 0 => k # i
    BY <2>1, <2>2
  <2>4. p \notin blurred /\ k = 0 => \A j \in DOMAIN alerts : alerts'[j].print = p => alerts'[j].status # "OPEN"
    BY <1>4, <1>6, <1>8, <2>0 DEF AlertInv, WritesFit
  <2>. QED
    BY <1>6, <1>7, <1>8, <2>0, <2>1, <2>3, <2>4 DEF AlertInv, WritesFit
<1>17. \A j : EventsOf(j)' = EventsOf(j)
  BY <1>2 DEF EventsOf
<1>18. ReviewsFit'
  <2>. SUFFICES ASSUME NEW w \in Reviewer, review'[w].alert # 0, alerts'[review'[w].alert].print \notin blurred
                PROVE  LET j == review'[w].alert
                       IN  /\ alerts'[j].status = "OPEN" /\ review'[w].seen = alerts'[j].occurrences
                           /\ review'[w].knows = {e \in events : e.alert = j}
    BY <1>2 DEF ReviewsFit, Reviewing, ReviewedPrint, EventsOf
  <2>. PICK j : j = review'[w].alert
    OBVIOUS
  <2>1. w # v /\ review'[w] = review[w] /\ Reviewing(w) /\ j \in DOMAIN alerts
    BY <1>11, <1>14 DEF Reviewing
  <2>2. j # i
    BY <1>1, <1>8, <2>1 DEF AlertInv, Alone, ReviewedPrint
  <2>. QED
    BY <1>6, <1>8, <2>1, <2>2 DEF AlertInv, ReviewsFit, ReviewedPrint, EventsOf
<1>19. CountsKept'
  <2>. SUFFICES ASSUME NEW j \in DOMAIN alerts', alerts'[j].print \notin blurred
                PROVE  /\ alerts'[j].occurrences = Cardinality(EventsOf(j)')
                       /\ alerts'[j].status = "OPEN" \/ EventsOf(j)' = judged'[j]
                       /\ \A k \in DOMAIN alerts' :
                             j # k /\ alerts'[k].print = alerts'[j].print =>
                                 "OPEN" \notin {alerts'[j].status} \intersect {alerts'[k].status}
    BY <1>2 DEF CountsKept
  <2>0. j \in DOMAIN alerts /\ DOMAIN alerts' = DOMAIN alerts /\ alerts[j].print \notin blurred /\ EventsOf(j)' = EventsOf(j)
    BY <1>7, <1>8, <1>17
  <2>1. /\ alerts[j].occurrences = Cardinality(EventsOf(j))
        /\ alerts[j].status = "OPEN" \/ EventsOf(j) = judged[j]
        /\ \A k \in DOMAIN alerts :
              j # k /\ alerts[k].print = alerts[j].print =>
                  "OPEN" \notin {alerts[j].status} \intersect {alerts[k].status}
    BY <2>0 DEF AlertInv, CountsKept
  <2>2. \A k \in DOMAIN alerts : alerts'[k].status = "OPEN" => alerts[k].status = "OPEN"
    BY <1>4, <1>6
  <2>3. \A k \in DOMAIN alerts : j # k /\ alerts'[k].print = alerts'[j].print =>
            "OPEN" \notin {alerts'[j].status} \intersect {alerts'[k].status}
    BY <1>8, <2>0, <2>1, <2>2
  <2>4. CASE j = i
    <3>0. ReviewedPrint(v) \notin blurred
      BY <1>1, <2>0, <2>4
    <3>1. r.seen = alerts[i].occurrences /\ r.knows = EventsOf(i)
      BY <1>1, <3>0 DEF AlertInv, ReviewsFit
    <3>. QED
      BY <1>4, <1>9, <2>0, <2>1, <2>3, <2>4, <3>1
  <2>5. CASE j # i
    BY <1>6, <1>9, <2>0, <2>1, <2>3, <2>5
  <2>. QED
    BY <2>4, <2>5
<1>20. LastLookSees'
  <2>0. UNCHANGED <<filing, filed, dropped, detector, events>>
    BY <1>2
  <2>1. \A g : Raising(g) => Raising(g)'
    BY <1>8, <2>0 DEF AlertInv, ProgressKept, Raising
  <2>. SUFFICES ASSUME NEW g \in filed, NEW h \in filed, Compared(g), h \in Others(g), g \in Others(h),
                       LookedAt(g, detector'[g]), LookedAt(h, detector'[h])
                PROVE  \/ Raising(g)' \/ ToRaise(g, detector'[g])
                       \/ Raising(h)' \/ ToRaise(h, detector'[h])
    BY <2>0 DEF LastLookSees, Compared, Others, Counts, SameMark, Peers, Mine, Looked, LookedAt, LooksAt,
                     WillRaise, Raising, ToRaise
  <2>2. WillRaise(g) \/ WillRaise(h)
    BY <2>0, Looking DEF AlertInv, LastLookSees
  <2>. QED
    BY <2>0, <2>1, <2>2, Looking
<1>21. NeverMore'
  <2>1. \A j \in DOMAIN alerts : alerts[j].occurrences <= Cardinality(EventsOf(j))
    BY DEF AlertInv, NeverMore
  <2>2. r.seen <= Cardinality(EventsOf(i))
    BY <1>1 DEF AlertInv, NeverMore
  <2>3. \A j \in DOMAIN alerts' : alerts'[j].occurrences <= Cardinality(EventsOf(j))
    BY <1>4, <1>6, <1>7, <2>1, <2>2
  <2>4. \A f \in Filing : Writing(f) /\ detector[f].alert # 0 =>
            detector[f].seen <= Cardinality(EventsOf(detector[f].alert))
    BY DEF AlertInv, NeverMore
  <2>5. \A w \in Reviewer : review'[w].alert # 0 =>
            review'[w].seen <= Cardinality(EventsOf(review'[w].alert))
    BY <1>11 DEF AlertInv, NeverMore, Reviewing
  <2>6. UNCHANGED <<detector, events>>
    BY <1>2
  <2>. QED
    BY <2>3, <2>4, <2>5, <2>6 DEF NeverMore, Writing, Reviewing, EventsOf
<1>. QED
  BY <1>12, <1>13, <1>15, <1>16, <1>18, <1>19, <1>20, <1>21 DEF AlertInv

-----------------------------------------------------------------------------
(* The invariant of the alerts holds in every state.                       *)
THEOREM AlertInductive == AlertSpec => []AlertInv
<1>1. ASSUME AlertInv, [AlertNext]_alertVars PROVE AlertInv'
  <2>1. CASE UNCHANGED alertVars \/ SwitchDetection
    <3>1. /\ UNCHANGED <<filing, filed, dropped, detector, alerts, review, events, judged, blurred>>
          /\ enabled' \in BOOLEAN
      BY <1>1, <2>1 DEF alertVars, SwitchDetection, AlertInv, AlertTypeOK
    <3>2. AlertTypeOK' /\ ProgressKept'
      BY <1>1, <3>1 DEF AlertInv, AlertTypeOK, ProgressKept, Mine
    <3>3. Alone' /\ WritesFit'
      BY <1>1, <3>1 DEF AlertInv, Alone, WritesFit, Writing, Reviewing, ReviewedPrint
    <3>4. ReviewsFit' /\ CountsKept' /\ NeverMore'
      BY <1>1, <3>1 DEF AlertInv, ReviewsFit, CountsKept, NeverMore, Writing, Reviewing, ReviewedPrint, EventsOf
    <3>5. LastLookSees'
      BY <1>1, <3>1 DEF AlertInv, LastLookSees, Compared, Others, Counts, SameMark, Peers, Mine, Looked, LooksAt, WillRaise
    <3>. QED
      BY <3>2, <3>3, <3>4, <3>5 DEF AlertInv
  <2>2. CASE AlertNext
    BY <1>1, <2>1, <2>2, FileStep, DropStep, CheckStep, MatchStep, WriteStep, DetectorFailsStep, BeginReviewStep,
       CommitReviewStep, ReviewFailsStep DEF AlertNext
  <2>. QED
    BY <1>1, <2>1, <2>2
<1>. QED
  BY <1>1, AlertStart, PTL DEF AlertSpec

(* fraud.service.ts:13: what two requests of two accounts share is raised  *)
(* by the one that is looked at last, unless it is of a cancelled          *)
(* withdrawal; no alert counts more than happened; and every event counts  *)
(* in an alert that is open or was decided by a reviewer who knew it,      *)
(* unless two of a print are written at once or more alerts are open than  *)
(* are looked at.                                                          *)
THEOREM AlertsReach == AlertSpec => []EventsReachStaff
<1>1. AlertInv => EventsReachStaff
  <2>. SUFFICES ASSUME AlertInv PROVE Raised
    BY DEF AlertInv, CountsKept, NeverMore, EventsReachStaff
  <2>. SUFFICES ASSUME NEW f \in filed, NEW g \in filed, g \in Others(f), f \in Others(g), Settled(f), Settled(g),
                       Compared(f)
                PROVE  \E e \in events : e.filing \in {f, g} /\ alerts[e.alert].print.kind \in Shared
    BY DEF Raised, Compared
  <2>1. Looked(f) /\ Looked(g)
    BY DEF Settled, Looked
  <2>2. WillRaise(f) \/ WillRaise(g)
    BY <2>1 DEF AlertInv, LastLookSees
  <2>3. Raising(f) \/ Raising(g)
    BY <2>2, Looking DEF Settled, ToRaise
  <2>. QED
    BY <2>3 DEF Raising
<1>. QED
  BY <1>1, AlertInductive, PTL

=============================================================================
