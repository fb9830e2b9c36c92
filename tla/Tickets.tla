------------------------------- MODULE Tickets -------------------------------
(***************************************************************************)
(* Support tickets (services/support.service.ts and replyTicket of         *)
(* services/admin.service.ts).                                             *)
(*                                                                         *)
(* A reply is two statements, the message and the status, and a player's   *)
(* reply or closing reads the ticket before them.  No transaction holds    *)
(* them together, so requests interleave between any two, and a request    *)
(* that fails after its message leaves the status as it was.               *)
(***************************************************************************)
EXTENDS Integers, Sequences

CONSTANTS
    Ticket,
    Request,       \* requests that act on a ticket
    FirstStatuses  \* the statuses of tickets at the start

VARIABLES
    tickets,  \* "support_tickets": the status
    thread,   \* "support_messages": who wrote each
    request,
    mixed     \* tickets on which two requests ran at once or one failed half-way

ticketVars == <<tickets, thread, request, mixed>>

Status == {"OPEN", "IN_PROGRESS", "WAITING_USER", "RESOLVED", "CLOSED"}

Kind == {"reply", "close", "staff reply", "staff resolve"}

RequestRow == [stage : {"new", "read", "posted", "done"}, kind : Kind, ticket : Ticket,
               seen : Status]

ASSUME TicketAssumption == FirstStatuses \subseteq Status

Overlaps(t, me) ==
    \E r \in Request \ {me} : request[r].ticket = t /\ request[r].stage \in {"read", "posted"}

Move(r, stage) ==
    /\ request' = [request EXCEPT ![r].stage = stage]
    /\ mixed' = IF Overlaps(request[r].ticket, r) THEN mixed \union {request[r].ticket} ELSE mixed

-----------------------------------------------------------------------------
\* ownedTicket of a player, or findUnique of the staff.
Read(r) ==
    /\ request[r].stage = "new"
    /\ request' = [request EXCEPT ![r].stage = "read",
                                  ![r].seen = tickets[request[r].ticket]]
    /\ UNCHANGED <<tickets, thread, mixed>>

Refuse(r) ==
    /\ request[r].stage = "read" /\ request[r].seen = "CLOSED"
    /\ request[r].kind \in {"reply", "close"}
    /\ request' = [request EXCEPT ![r].stage = "done"]
    /\ UNCHANGED <<tickets, thread, mixed>>

\* Staff may answer a closed ticket.
MayPost(r) ==
    \/ request[r].kind = "reply" /\ request[r].seen # "CLOSED"
    \/ request[r].kind \in {"staff reply", "staff resolve"}

PostMessage(r) ==
    /\ request[r].stage = "read" /\ MayPost(r)
    /\ thread' = [thread EXCEPT ![request[r].ticket] =
                      Append(@, IF request[r].kind = "reply" THEN "player" ELSE "staff")]
    /\ Move(r, "posted")
    /\ tickets' = tickets

\* Mutant of StatusAfterReply: a ticket that staff resolved stays resolved.
StatusUnlessResolved(seen) == IF seen \in {"IN_PROGRESS", "RESOLVED"} THEN seen ELSE "OPEN"

StatusAfterReply(seen) == IF seen = "IN_PROGRESS" THEN "IN_PROGRESS" ELSE "OPEN"

StatusFor(r) ==
    CASE request[r].kind = "reply" -> StatusAfterReply(request[r].seen)
      [] request[r].kind = "close" -> "CLOSED"
      [] request[r].kind = "staff reply" -> "WAITING_USER"
      [] request[r].kind = "staff resolve" -> "RESOLVED"

UpdateStatus(r) ==
    /\ \/ request[r].stage = "posted"
       \/ request[r].stage = "read" /\ request[r].kind = "close" /\ request[r].seen # "CLOSED"
    /\ tickets' = [tickets EXCEPT ![request[r].ticket] = StatusFor(r)]
    /\ Move(r, "done")
    /\ thread' = thread

\* The process or its connection is lost.
RequestFails(r) ==
    /\ request[r].stage \in {"read", "posted"}
    /\ request' = [request EXCEPT ![r].stage = "done"]
    /\ mixed' = IF request[r].stage = "posted" THEN mixed \union {request[r].ticket} ELSE mixed
    /\ UNCHANGED <<tickets, thread>>

\* createTicket writes the ticket and its message in one transaction.
TicketInit ==
    /\ tickets \in [Ticket -> FirstStatuses]
    /\ thread = [t \in Ticket |-> IF tickets[t] \in {"WAITING_USER", "RESOLVED"}
                                 THEN <<"player", "staff">> ELSE <<"player">>]
    /\ request \in [Request -> [stage : {"new"}, kind : Kind, ticket : Ticket, seen : {"OPEN"}]]
    /\ mixed = {}

TicketNext ==
    \E r \in Request : Read(r) \/ Refuse(r) \/ PostMessage(r) \/ UpdateStatus(r) \/ RequestFails(r)

TicketSpec == TicketInit /\ [][TicketNext]_ticketVars

-----------------------------------------------------------------------------
Last(t) == thread[t][Len(thread[t])]

TicketTypeOK ==
    /\ tickets \in [Ticket -> Status]
    /\ thread \in [Ticket -> Seq({"player", "staff"})]
    /\ request \in [Request -> RequestRow]
    /\ mixed \subseteq Ticket

(* support.service.ts:11, the ticket waits for whoever did not write last: *)
(* a player who answers, even after staff resolved the ticket, is in the   *)
(* staff's queue again, and only an answer takes a ticket out of it.  Two  *)
(* requests on one ticket at once, or one that stops after its message,    *)
(* may break this.                                                         *)
PlayerNotForgotten ==
    \A t \in Ticket \ mixed :
        (\A r \in Request : request[r].ticket = t => request[r].stage # "posted") =>
            /\ Last(t) = "player" => tickets[t] \in {"OPEN", "IN_PROGRESS", "CLOSED"}
            /\ Last(t) = "staff" => tickets[t] \in {"WAITING_USER", "RESOLVED", "CLOSED"}
=============================================================================
